---- MODULE Spec2Model ----
(***************************************************************************)
(* Verification model of src/scanner.py: the scoring engine               *)
(* (precompute_serien, score_bei_index, berechne_score, score_ict and the  *)
(* pattern detectors), the signal classifier (weise_signale) and the       *)
(* backtest simulator (cmd_backtest, berechne_max_drawdown).               *)
(*                                                                         *)
(* Conventions.  Python sequences are 0-based, TLA+ sequences 1-based:     *)
(* the bar the code calls index i is element i+1 here (operator At).       *)
(* Money is counted in whole ticks; the closing prices fed to the          *)
(* backtest are multiples of 200 ticks so that the code's 2.5 % and 2 %    *)
(* of a price are whole numbers of ticks and integer arithmetic is exact.  *)
(* The instrument is quoted in EUR, the branch of to_eur that returns the  *)
(* price unchanged.                                                        *)
(***************************************************************************)
EXTENDS Integers, Sequences, FiniteSets, TLC

VARIABLES
    cmd,            \* which command of the program this run executes
    args,           \* cmd_backtest: the parsed command line (haltezeit, use_sl, ...)
    raw,            \* cmd_backtest: closing prices of data_map[ticker], as downloaded
    atr_modus,      \* cmd_backtest: what serien["atr"] holds at the checkpoints
    df,             \* cmd_backtest: closing prices of df after the --seit filter
    scores_all,     \* cmd_backtest: score of every checkpoint (line 2122)
    bt_pc,          \* cmd_backtest: position in the per-ticker body
    idx,            \* cmd_backtest: position of the checkpoint loop in check_tage
    next_idx,       \* cmd_backtest: first bar at which a new trade may be entered
    trades,         \* cmd_backtest: trades recorded so far
    equity,         \* cmd_backtest: running account value
    equity_kurve,   \* cmd_backtest: equity curve
    letzte,         \* cmd_backtest: what the last executed loop iteration decided
    resultate,      \* cmd_backtest: result entries appended so far
    tickers,        \* cmd_backtest: the data of every ticker of the run
    ticker,         \* cmd_backtest: position of the ticker loop in tickers
    warnungen,      \* cmd_backtest: the tickers line 2241 logged a warning for
    bars,           \* scoring: the price series (OHLCV bars) of the ticker
    spy_data,       \* scoring: the benchmark series passed in, or None
    spy_cache,      \* the module global _spy_cache: None, or Some(series)
    serien,         \* scoring: the indicator set once it is built, else None
    stoerung,       \* scoring: the indicator whose computation raises, or None
    ruf,            \* scoring: the last call of a scoring function and its result
    ergebnisse,     \* cmd_scan: the scan results handed to weise_signale
    scan_args,      \* cmd_scan: min_score, min_score_short and workers
    klass,          \* cmd_scan: what weise_signale returned, else None
    scan_pc,        \* cmd_scan: position of the main thread
    data_map,       \* cmd_scan: the downloaded series of every ticker
    spy_quelle,     \* get_spy_returns: the series the cache file or download yields
    worker,         \* cmd_scan: state and return value of every ticker's future,
                    \*           and whether the analysis of the ticker raises
    schreibt        \* cmd_scan: the writes to shared state, with their writers

laufvars == <<tickers, ticker, warnungen>>

btvars == <<args, raw, atr_modus, df, scores_all, bt_pc, idx, next_idx,
            trades, equity, equity_kurve, letzte, resultate, laufvars>>

scorevars == <<bars, spy_data, spy_cache, serien, stoerung, ruf>>

poolvars == <<scan_pc, data_map, spy_quelle, worker, schreibt>>

scanvars == <<ergebnisse, scan_args, klass, poolvars>>

vars == <<cmd, btvars, scorevars, scanvars>>

-----------------------------------------------------------------------------
(* Generic helpers                                                         *)

At(s, i) == s[i + 1]

Max(a, b) == IF a >= b THEN a ELSE b

Min(a, b) == IF a <= b THEN a ELSE b

RECURSIVE SumSeq(_)
SumSeq(s) == IF s = <<>> THEN 0 ELSE Head(s) + SumSeq(Tail(s))

Sorted(s) == SortSeq(s, LAMBDA a, b: a < b)

\* Python's s[:k] for 0 <= k
Prefix(s, k) == SubSeq(s, 1, Min(k, Len(s)))

None == <<>>

Some(v) == <<v>>

-----------------------------------------------------------------------------
(* Program constants of cmd_backtest                                       *)

MinBarsBacktest == 100

MinBarsSeit == 60

ErsterCheck == 60

CheckSchritt == 5

MinPast == 5

-----------------------------------------------------------------------------
(* Bounds of the model                                                     *)

MaxLen == 100

MusterLen == 2

\* bars after the warm-up of a scored series
MaxTail == 2

\* bars of the benchmark series
SpyLen == 30

\* tickers of a scan
MaxPop == 5

\* tickers of a backtest run
MaxTicker == 2

\* tickers of a scan that is followed through its worker pool
PoolTicker == 3

\* threads of the worker pool
MaxWorkers == 2

-----------------------------------------------------------------------------
(* Input domains of the backtest                                           *)

\* closing prices, in ticks (multiples of 200)
PriceVals == {800, 1000, 1200}

\* scores score_bei_index may return at a checkpoint
ScoreVals == {0, 1, 2}

\* --haltezeit: 5 and 10 leave checkpoints, 45 leaves none in MaxLen bars
HaltezeitVals == {5, 10, 45}

\* per-ticker share of the depot, in ticks
DepotVals == {50, 10000}

\* --seit: None, or the number of leading bars the date filter removes
SeitVals == {None, Some(9), Some(45)}

\* len(data_map[ticker]): no data, one bar short of the minimum, enough
RawLenVals == {0, MinBarsBacktest - 1, MaxLen}

\* serien["atr"] at a checkpoint: NaN or missing, a narrow and a wide range
AtrModi == {"nan", "eng", "weit"}

\* args.kosten, the default of 1.0 EUR per order (1 EUR = 20 ticks)
KostenEur == 20

\* cyclic price patterns: bar k closes at m[(k mod MusterLen) + 1]
Muster == [1..MusterLen -> PriceVals]

RawCloses(m, n) == [k \in 1..n |-> m[((k - 1) % MusterLen) + 1]]

-----------------------------------------------------------------------------
(* cmd_backtest: pure parts                                                *)

\* to_eur for an instrument quoted in EUR (line 157)
ToEur(kurs) == kurs

\* mutant of CheckTage: the checkpoints run up to the end of the series
CheckTage_BisEnde(n, haltezeit) ==
    LET cnt == IF n > ErsterCheck
               THEN ((n - ErsterCheck - 1) \div CheckSchritt) + 1
               ELSE 0
    IN  [k \in 1..cnt |-> ErsterCheck + CheckSchritt * (k - 1)]

\* check_tage = list(range(60, len(df) - haltezeit, 5))
CheckTage(n, haltezeit) ==
    LET cnt == IF n - haltezeit > ErsterCheck
               THEN ((n - haltezeit - ErsterCheck - 1) \div CheckSchritt) + 1
               ELSE 0
    IN  [k \in 1..cnt |-> ErsterCheck + CheckSchritt * (k - 1)]

\* df = df[df_idx >= seit_datum]
SeitFilter(closes, seit) ==
    IF seit = None THEN closes
    ELSE SubSeq(closes, Min(seit[1], Len(closes)) + 1, Len(closes))

\* the guards of lines 2104, 2111 and 2118: TRUE when the ticker is skipped
Abgelehnt(closes, a) ==
    \/ Len(closes) = 0
    \/ Len(closes) < MinBarsBacktest
    \/ a.seit # None /\ Len(SeitFilter(closes, a.seit)) < MinBarsSeit
    \/ Len(CheckTage(Len(SeitFilter(closes, a.seit)), a.haltezeit)) = 0

\* mutant of Past: the thresholds are taken over all checkpoints of the run
Past_Alle(sc, ix) == sc

\* past = scores_all[:idx+1]
Past(sc, ix) == Prefix(sc, ix + 1)

\* mutant of LongTh: the long threshold is the median of the past scores
LongTh_Median(past) == At(Sorted(past), Len(past) \div 2)

\* long_th = ps[int(np_ * 0.8)]
LongTh(past) == At(Sorted(past), (Len(past) * 8) \div 10)

\* short_th = ps[int(np_ * 0.2)]
ShortTh(past) == At(Sorted(past), (Len(past) * 2) \div 10)

\* if long_th == short_th: continue
Degeneriert(long_th, short_th) == long_th = short_th

\* mutant of Uebersprungen: no checkpoint is ever skipped
Uebersprungen_Nie(i, nxt) == FALSE

\* if i < next_idx: continue
Uebersprungen(i, nxt) == i < nxt

\* what the loop body does at position ix of check_tage (lines 2132-2139,
\* 2150, 2184), as a function of the scores and of next_idx
Entscheid(sc, ix, i, nxt) ==
    LET past == Past(sc, ix)
    IN  IF Uebersprungen(i, nxt) THEN "skip"
        ELSE IF Len(past) < MinPast THEN "zuwenig"
        ELSE IF Degeneriert(LongTh(past), ShortTh(past)) THEN "degeneriert"
        ELSE IF At(sc, ix) >= LongTh(past) THEN "LONG"
        ELSE IF At(sc, ix) <= ShortTh(past) THEN "SHORT"
        ELSE "neutral"

\* the thresholds the loop body computes at position ix, None when it
\* leaves the iteration before line 2137
Schwellen(sc, ix, i, nxt) ==
    IF Uebersprungen(i, nxt) \/ Len(Past(sc, ix)) < MinPast
    THEN [long_th |-> None, short_th |-> None]
    ELSE [long_th |-> Some(LongTh(Past(sc, ix))), short_th |-> Some(ShortTh(Past(sc, ix)))]

\* atr_raw (line 2144): None when the ATR is missing or NaN
AtrRaw(modus) ==
    CASE modus = "nan"  -> None
      [] modus = "eng"  -> Some(5)
      [] modus = "weit" -> Some(150)

\* atr_eur (line 2145): 2.5 % of the entry price when there is no ATR
AtrEur(atr_raw, kauf_eur) ==
    IF atr_raw # None /\ atr_raw[1] # 0 THEN ToEur(atr_raw[1])
    ELSE (kauf_eur * 25) \div 1000

\* sl_dist = max(2 * atr_eur, kauf_eur * 0.02)
SlDist(atr_eur, kauf_eur) == Max(2 * atr_eur, (kauf_eur * 2) \div 100)

\* mutant of Stueck: at least one share is traded
Stueck_Mindestens1(ticker_depot, sl_dist) ==
    IF sl_dist > 0 THEN Max(1, (ticker_depot * 2) \div (100 * sl_dist)) ELSE 1

\* stueck = int((ticker_depot * 0.02) / sl_dist) if sl_dist > 0 else 1
Stueck(ticker_depot, sl_dist) ==
    IF sl_dist > 0 THEN (ticker_depot * 2) \div (100 * sl_dist) ELSE 1

\* mutant of StopGilt: a stop that trailing has set is applied even when
\* the stop-loss is switched off
StopGilt_Trailing(use_sl, stop_price) == stop_price # None

\* use_sl and stop_price is not None (lines 2167, 2200)
StopGilt(use_sl, stop_price) == use_sl /\ stop_price # None

\* mutant of LongTage: the stop stays where it was set at the entry
RECURSIVE LongTage_StopFest(_, _, _, _, _, _, _)
LongTage_StopFest(closes, a, atr_eur, j, end_idx, stop_price, peak_eur) ==
    IF j > end_idx THEN [exit_idx |-> end_idx, exit_reason |-> "Zeit"]
    ELSE IF StopGilt(a.use_sl, stop_price) /\ ToEur(At(closes, j)) <= stop_price[1]
         THEN [exit_idx |-> j, exit_reason |-> "SL"]
         ELSE LongTage_StopFest(closes, a, atr_eur, j + 1, end_idx, stop_price, peak_eur)

\* the day loop of a LONG trade (lines 2158-2170), from day j on
RECURSIVE LongTage(_, _, _, _, _, _, _)
LongTage(closes, a, atr_eur, j, end_idx, stop_price, peak_eur) ==
    IF j > end_idx THEN [exit_idx |-> end_idx, exit_reason |-> "Zeit"]
    ELSE LET cur_eur == ToEur(At(closes, j))
             zieht   == a.use_trailing /\ cur_eur > peak_eur
             peak2   == IF zieht THEN cur_eur ELSE peak_eur
             stop2   == IF zieht THEN Some(peak2 - 2 * atr_eur) ELSE stop_price
         IN  IF StopGilt(a.use_sl, stop2) /\ cur_eur <= stop2[1]
             THEN [exit_idx |-> j, exit_reason |-> "SL"]
             ELSE LongTage(closes, a, atr_eur, j + 1, end_idx, stop2, peak2)

\* mutant of ShortTage: the scan goes on after a breach, the last day that
\* breaches the stop is the exit
RECURSIVE ShortTage_Letzter(_, _, _, _, _, _, _)
ShortTage_Letzter(closes, a, atr_eur, j, end_idx, stop_price, floor_eur) ==
    IF j > end_idx THEN [exit_idx |-> end_idx, exit_reason |-> "Zeit"]
    ELSE LET cur_eur == ToEur(At(closes, j))
             zieht   == a.use_trailing /\ cur_eur < floor_eur
             floor2  == IF zieht THEN cur_eur ELSE floor_eur
             stop2   == IF zieht THEN Some(floor2 + 2 * atr_eur) ELSE stop_price
             rest    == ShortTage_Letzter(closes, a, atr_eur, j + 1, end_idx, stop2, floor2)
         IN  IF rest.exit_reason = "SL" THEN rest
             ELSE IF StopGilt(a.use_sl, stop2) /\ cur_eur >= stop2[1]
                  THEN [exit_idx |-> j, exit_reason |-> "SL"]
                  ELSE rest

\* the day loop of a SHORT trade (lines 2192-2203), from day j on
RECURSIVE ShortTage(_, _, _, _, _, _, _)
ShortTage(closes, a, atr_eur, j, end_idx, stop_price, floor_eur) ==
    IF j > end_idx THEN [exit_idx |-> end_idx, exit_reason |-> "Zeit"]
    ELSE LET cur_eur == ToEur(At(closes, j))
             zieht   == a.use_trailing /\ cur_eur < floor_eur
             floor2  == IF zieht THEN cur_eur ELSE floor_eur
             stop2   == IF zieht THEN Some(floor2 + 2 * atr_eur) ELSE stop_price
         IN  IF StopGilt(a.use_sl, stop2) /\ cur_eur >= stop2[1]
             THEN [exit_idx |-> j, exit_reason |-> "SL"]
             ELSE ShortTage(closes, a, atr_eur, j + 1, end_idx, stop2, floor2)

\* mutant of StartKurve: the curve starts empty
StartKurve_Leer(ticker_depot) == <<>>

\* equity_kurve = [ticker_depot] (line 2126)
StartKurve(ticker_depot) == <<ticker_depot>>

\* mutant of NextIdxNach: the next trade may start right after the entry bar
NextIdxNach_Einstieg(i, exit_idx) == i + 1

\* next_idx = exit_idx (lines 2182, 2215)
NextIdxNach(i, exit_idx) == exit_idx

\* mutant of Gewinn: the transaction cost is charged per share
Gewinn_KostenJeStueck(signal, kauf_eur, verk_eur, stueck, kosten) ==
    IF signal = "LONG"
    THEN (verk_eur - kauf_eur) * stueck - kosten * stueck
    ELSE (kauf_eur - verk_eur) * stueck - kosten * stueck

\* gewinn (lines 2175, 2208)
Gewinn(signal, kauf_eur, verk_eur, stueck, kosten) ==
    IF signal = "LONG"
    THEN (verk_eur - kauf_eur) * stueck - kosten
    ELSE (kauf_eur - verk_eur) * stueck - kosten

\* one trade opened at checkpoint i (lines 2141-2215): the trade record; the
\* code keeps the exit index only in next_idx, the record here carries it too
Trade(closes, a, modus, signal, i) ==
    LET kauf_eur == ToEur(At(closes, i))
        atr_eur  == AtrEur(AtrRaw(modus), kauf_eur)
        sl_dist  == SlDist(atr_eur, kauf_eur)
        stueck   == Stueck(a.depot, sl_dist)
        kosten   == a.kosten_eur * 2
        end_idx  == Min(i + a.haltezeit, Len(closes) - 1)
        ausgang  == IF signal = "LONG"
                    THEN LongTage(closes, a, atr_eur, i + 1, end_idx,
                                  IF a.use_sl THEN Some(kauf_eur - 2 * atr_eur) ELSE None,
                                  kauf_eur)
                    ELSE ShortTage(closes, a, atr_eur, i + 1, end_idx,
                                   IF a.use_sl THEN Some(kauf_eur + 2 * atr_eur) ELSE None,
                                   kauf_eur)
        verk_eur == ToEur(At(closes, ausgang.exit_idx))
        gewinn   == Gewinn(signal, kauf_eur, verk_eur, stueck, kosten)
    IN  [datum |-> i, signal |-> signal, kauf |-> kauf_eur, verkauf |-> verk_eur,
         stueck |-> stueck, gewinn |-> gewinn, exit |-> ausgang.exit_reason,
         exit_idx |-> ausgang.exit_idx]

\* berechne_max_drawdown (lines 804-811).  The drawdown is the fraction
\* 100 * num / den, kept exact; 0.0 is num = 0, den = 1.
RECURSIVE DrawdownAb(_, _, _, _)
DrawdownAb(kurve, k, peak, max_dd) ==
    IF k > Len(kurve) THEN max_dd
    ELSE LET v     == kurve[k]
             peak2 == IF v > peak THEN v ELSE peak
             dd    == IF peak2 > 0 THEN [num |-> peak2 - v, den |-> peak2]
                      ELSE [num |-> 0, den |-> 1]
             max2  == IF dd.num * max_dd.den > max_dd.num * dd.den THEN dd ELSE max_dd
         IN  DrawdownAb(kurve, k + 1, peak2, max2)

berechne_max_drawdown(kurve) ==
    IF Len(kurve) < 2 THEN [num |-> 0, den |-> 1]
    ELSE DrawdownAb(kurve, 1, kurve[1], [num |-> 0, den |-> 1])

\* the result entry appended at lines 2223-2239
Resultat(t, tr, a, eq, kurve) ==
    [ticker       |-> t,
     trades       |-> Len(tr),
     alle_trades  |-> tr,
     equity_start |-> a.depot,
     equity_end   |-> eq,
     equity_kurve |-> kurve,
     max_drawdown |-> berechne_max_drawdown(kurve),
     sl_hits      |-> Cardinality({k \in 1..Len(tr) : tr[k].exit = "SL"})]

\* mutant of NachFehler: the trades simulated before the error are reported
NachFehler_Teil(res, t, tr, a, eq, kurve) ==
    IF tr # <<>> THEN Append(res, Resultat(t, tr, a, eq, kurve)) ELSE res

\* resultate after the except clause of lines 2240-2241: it only logs
NachFehler(res, t, tr, a, eq, kurve) == res

-----------------------------------------------------------------------------
(* Price bars and the indicator series of the ta library                   *)
(*                                                                         *)
(* A bar is [o, h, l, c, v]; bar k (0-based) is trading day k, five        *)
(* trading days (Monday to Friday) make a calendar week, so week w holds   *)
(* the bars 5w .. 5w+4 and resample("W") labels it with the Sunday after   *)
(* its Friday.  An indicator value is None (NaN) or Some(value).  Simple   *)
(* moving averages are kept as the exact fraction num/den; the             *)
(* exponentially smoothed series (RSI, MACD) are computed in fixed point   *)
(* with three decimal places.                                              *)

Closes(b) == [k \in 1..Len(b) |-> b[k].c]

Highs(b) == [k \in 1..Len(b) |-> b[k].h]

Lows(b) == [k \in 1..Len(b) |-> b[k].l]

Volumes(b) == [k \in 1..Len(b) |-> b[k].v]

\* sum of x[lo..hi] (0-based, inclusive), by halving the range
RECURSIVE SumVonBis(_, _, _)
SumVonBis(x, lo, hi) ==
    IF lo > hi THEN 0
    ELSE IF lo = hi THEN At(x, lo)
    ELSE SumVonBis(x, lo, (lo + hi) \div 2) + SumVonBis(x, (lo + hi) \div 2 + 1, hi)

\* sum of the squares of x[lo..hi]
RECURSIVE QuadSumVonBis(_, _, _)
QuadSumVonBis(x, lo, hi) ==
    IF lo > hi THEN 0
    ELSE IF lo = hi THEN At(x, lo) * At(x, lo)
    ELSE QuadSumVonBis(x, lo, (lo + hi) \div 2)
         + QuadSumVonBis(x, (lo + hi) \div 2 + 1, hi)

\* w, once v has been computed
Danach(v, w) == IF v = v THEN w ELSE w

\* max(x[lo..hi]) and min(x[lo..hi]) for lo <= hi
MaxVonBis(x, lo, hi) ==
    LET werte == {At(x, j) : j \in lo..hi}
    IN  CHOOSE m \in werte : \A y \in werte : y <= m

MinVonBis(x, lo, hi) ==
    LET werte == {At(x, j) : j \in lo..hi}
    IN  CHOOSE m \in werte : \A y \in werte : y >= m

\* SMAIndicator(x, window).sma_indicator().iloc[k], and rolling(w).mean()
SmaAt(x, k, window) ==
    IF k < 0 \/ k >= Len(x) \/ k + 1 < window THEN None
    ELSE Some([num |-> SumVonBis(x, k - window + 1, k), den |-> window])

\* ewm(alpha = 1/window, adjust=False).mean(), times 1000: the average v
\* before bar lo carried on over the bars lo..hi
RECURSIVE WilderVonBis(_, _, _, _, _)
WilderVonBis(x, lo, hi, v, window) ==
    IF lo > hi THEN v
    ELSE IF lo = hi THEN ((window - 1) * v + 1000 * At(x, lo)) \div window
    ELSE LET mitte == WilderVonBis(x, lo, (lo + hi) \div 2, v, window)
         IN  Danach(mitte, WilderVonBis(x, (lo + hi) \div 2 + 1, hi, mitte, window))

WilderAt(x, k, window) == WilderVonBis(x, 1, k, 1000 * At(x, 0), window)

\* the up and down moves RSIIndicator smooths
UpMoves(x) ==
    [k \in 1..Len(x) |-> IF k > 1 /\ x[k] > x[k - 1] THEN x[k] - x[k - 1] ELSE 0]

DownMoves(x) ==
    [k \in 1..Len(x) |-> IF k > 1 /\ x[k] < x[k - 1] THEN x[k - 1] - x[k] ELSE 0]

\* RSIIndicator(x, window=14).rsi().iloc[k]: 100 * up / (up + down)
RsiAt(x, k) ==
    IF k < 0 \/ k >= Len(x) \/ k + 1 < 14 THEN None
    ELSE LET up == WilderAt(UpMoves(x), k, 14)
             dn == WilderAt(DownMoves(x), k, 14)
         IN  IF dn = 0 THEN Some([num |-> 100, den |-> 1])
             ELSE Some([num |-> 100 * up, den |-> up + dn])

\* ta.trend.MACD(x), times 1000: the fast (span 12) and slow (span 26)
\* averages ewm(span, adjust=False).mean(), and the signal line, the span-9
\* average of fast - slow started at its first value (bar 25); one bar
MacdSchritt(v, xk, k) ==
    LET fast == (11 * v.fast + 2 * 1000 * xk) \div 13
        slow == (25 * v.slow + 2 * 1000 * xk) \div 27
    IN  [fast |-> fast,
         slow |-> slow,
         signal |-> IF k < 25 THEN 0
                    ELSE IF k = 25 THEN fast - slow
                    ELSE (8 * v.signal + 2 * (fast - slow)) \div 10]

\* the state v before bar lo carried on over the bars lo..hi
RECURSIVE MacdVonBis(_, _, _, _)
MacdVonBis(x, lo, hi, v) ==
    IF lo > hi THEN v
    ELSE IF lo = hi THEN MacdSchritt(v, At(x, lo), lo)
    ELSE LET mitte == MacdVonBis(x, lo, (lo + hi) \div 2, v)
         IN  Danach(mitte, MacdVonBis(x, (lo + hi) \div 2 + 1, hi, mitte))

MacdBis(x, k) ==
    MacdVonBis(x, 1, k, [fast |-> 1000 * At(x, 0), slow |-> 1000 * At(x, 0), signal |-> 0])

\* ta.trend.MACD(x).macd_diff().iloc[k], times 1000
MacdDiffAt(x, k) ==
    IF k < 0 \/ k >= Len(x) \/ k < 33 THEN None
    ELSE LET v == MacdBis(x, k)
         IN  Some(v.fast - v.slow - v.signal)

\* BollingerBands(x).bollinger_lband().iloc[k] = mean - 2 * std over 20 bars,
\* kept as the window's sum s and sum of squares q
BbLowerAt(x, k) ==
    IF k < 0 \/ k >= Len(x) \/ k + 1 < 20 THEN None
    ELSE Some([s |-> SumVonBis(x, k - 19, k), q |-> QuadSumVonBis(x, k - 19, k)])

\* kurs < bb_lower, exactly: mean - kurs > 2 * std
UnterBb(kurs, bb) ==
    LET d == bb.s - 20 * kurs
    IN  d > 0 /\ d * d > 4 * (20 * bb.q - bb.s * bb.s)

\* close.rolling(252, min_periods=50).max().iloc[k] and .min()
High52At(x, k) ==
    IF k < 0 \/ k >= Len(x) \/ k + 1 < 50 THEN None
    ELSE Some(MaxVonBis(x, Max(0, k - 251), k))

Low52At(x, k) ==
    IF k < 0 \/ k >= Len(x) \/ k + 1 < 50 THEN None
    ELSE Some(MinVonBis(x, Max(0, k - 251), k))

\* pct_change(20).iloc[k], kept as the pair (value now, value 20 bars ago)
Pct20At(x, k) ==
    IF k < 20 \/ k >= Len(x) THEN None
    ELSE Some([jetzt |-> At(x, k), vorher |-> At(x, k - 20)])

\* close.resample("W").last(): the close of the last bar of every week
Weekly(x) ==
    [w \in 1..((Len(x) + 4) \div 5) |-> x[Min(5 * w, Len(x))]]

\* number of weekly entries whose label is <= the date of bar i
WochenBis(i) == i \div 5

-----------------------------------------------------------------------------
(* The scoring rules.  Each rule is the signed delta it adds to the score  *)
(* (0 when it does not fire); kurs is the close at the scored bar.         *)

\* a > b for two fractions with positive denominators
BruchGroesser(a, b) == a.num * b.den > b.num * a.den

Regel_SMA200(kurs, sma200) ==
    IF sma200 = None THEN 0
    ELSE IF kurs * sma200[1].den > sma200[1].num THEN 1 ELSE -3

Regel_Cross(sma50, sma200) ==
    IF sma50 # None /\ sma200 # None /\ BruchGroesser(sma50[1], sma200[1]) THEN 1 ELSE 0

Regel_RSI(rsi) ==
    IF rsi = None THEN 0
    ELSE LET r == rsi[1]
         IN  IF r.num < 35 * r.den THEN 2
             ELSE IF r.num < 50 * r.den THEN 1
             ELSE IF r.num > 75 * r.den THEN -2
             ELSE IF r.num > 70 * r.den THEN -1
             ELSE 0

Regel_MACD(macd) ==
    IF macd = None THEN 0 ELSE IF macd[1] > 0 THEN 1 ELSE -1

Regel_SMA20(kurs, sma20) ==
    IF sma20 # None /\ kurs * sma20[1].den > sma20[1].num THEN 1 ELSE 0

Regel_SMA10(kurs, sma10) ==
    IF sma10 # None /\ kurs * sma10[1].den < sma10[1].num THEN -1 ELSE 0

Regel_BB(kurs, bb) ==
    IF bb # None /\ UnterBb(kurs, bb[1]) THEN 1 ELSE 0

\* vol_ma > 0 and vol > vol_ma * 1.5
Regel_Vol(vol, vol_ma) ==
    IF vol_ma # None /\ vol_ma[1].num > 0 /\ 2 * vol * vol_ma[1].den > 3 * vol_ma[1].num
    THEN 1 ELSE 0

\* wb is the sequence of weekly closes the rule may look at
Regel_Weekly(wb) ==
    IF Len(wb) >= 2 /\ wb[Len(wb)] > wb[Len(wb) - 1] THEN 1 ELSE 0

Regel_WRsi(w_rsi) ==
    IF w_rsi # None /\ w_rsi[1].num > 80 * w_rsi[1].den THEN -1 ELSE 0

\* diff = stock_ret - spy_ret against +-0.02, both returns over 20 bars
Regel_RS(stock_ret, spy_ret) ==
    IF stock_ret = None \/ spy_ret = None THEN 0
    ELSE LET a == stock_ret[1]
             b == spy_ret[1]
             links == 50 * (a.jetzt * b.vorher - b.jetzt * a.vorher)
             rechts == a.vorher * b.vorher
         IN  IF links > rechts THEN 1
             ELSE IF links < 0 - rechts THEN -1
             ELSE 0

\* +2 near the 52-week high, else +1 near the 52-week low
Regel_52W(kurs, h52, l52) ==
    IF h52 = None \/ l52 = None THEN 0
    ELSE IF ~(h52[1] > 0 /\ l52[1] > 0) THEN 0
    ELSE IF 10 * (h52[1] - kurs) < h52[1] THEN 2
    ELSE IF 10 * (kurs - l52[1]) < l52[1] THEN 1
    ELSE 0

\* abs((kurs / prev - 1) * 100) > 3
Regel_Gap(kurs, prev) ==
    IF prev = None THEN 0
    ELSE IF ~(prev[1] > 0) THEN 0
    ELSE IF 100 * (IF kurs >= prev[1] THEN kurs - prev[1] ELSE prev[1] - kurs) > 3 * prev[1]
         THEN (IF kurs > prev[1] THEN 1 ELSE -1)
    ELSE 0

-----------------------------------------------------------------------------
(* ICT pattern detectors and score_ict                                     *)

detect_fvg(b, lookback) ==
    LET n == Len(b)
        start == Max(0, n - lookback)
    IN  {[typ |-> "bull", oben |-> At(b, i + 2).l, unten |-> At(b, i).h, idx |-> i] :
            i \in {j \in start..(n - 3) : At(b, j + 2).l > At(b, j).h}}
        \cup
        {[typ |-> "bear", oben |-> At(b, i).l, unten |-> At(b, i + 2).h, idx |-> i] :
            i \in {j \in start..(n - 3) : At(b, j + 2).h < At(b, j).l}}

\* (closes[i+3] - closes[i+1]) / closes[i+1] > 0.015, and < -0.015
MoveAuf(c1, c3) ==
    IF c1 > 0 THEN 1000 * (c3 - c1) > 15 * c1 ELSE 1000 * (c3 - c1) < 15 * c1

MoveAb(c1, c3) ==
    IF c1 > 0 THEN 1000 * (c3 - c1) < 0 - 15 * c1 ELSE 1000 * (c3 - c1) > 0 - 15 * c1

detect_order_blocks(b) ==
    LET n == Len(b)
        start == Max(1, n - 50)
        kand == {j \in start..(n - 4) : At(b, j + 1).c # 0}
    IN  {[typ |-> "bull", oben |-> At(b, i).o, unten |-> At(b, i).c, idx |-> i] :
            i \in {j \in kand : At(b, j).c < At(b, j).o
                                /\ MoveAuf(At(b, j + 1).c, At(b, j + 3).c)}}
        \cup
        {[typ |-> "bear", oben |-> At(b, i).c, unten |-> At(b, i).o, idx |-> i] :
            i \in {j \in kand : At(b, j).c > At(b, j).o
                                /\ MoveAb(At(b, j + 1).c, At(b, j + 3).c)}}

\* the sweeps detect_liquidity_sweep finds at the indices >= von
SweepsAb(b, lookback, von) ==
    LET n == Len(b)
        highs == Highs(b)
        lows == Lows(b)
        recent_high(i) == MaxVonBis(highs, i - lookback, i - 1)
        recent_low(i) == MinVonBis(lows, i - lookback, i - 1)
        bereich == Max(lookback, von)..(n - 2)
    IN  IF n < lookback + 3 THEN {}
        ELSE {[typ |-> "bull", level |-> recent_low(i), idx |-> i] :
                 i \in {j \in bereich :
                          At(b, j).l < recent_low(j) /\ At(b, j).c > recent_low(j)}}
             \cup
             {[typ |-> "bear", level |-> recent_high(i), idx |-> i] :
                 i \in {j \in bereich :
                          At(b, j).h > recent_high(j) /\ At(b, j).c < recent_high(j)}}

detect_liquidity_sweep(b, lookback) == SweepsAb(b, lookback, lookback)

detect_bos(b, lookback) ==
    LET n == Len(b)
        recent_high == MaxVonBis(Highs(b), n - lookback - 1, n - 2)
        recent_low == MinVonBis(Lows(b), n - lookback - 1, n - 2)
    IN  IF n < lookback + 2 THEN "-"
        ELSE IF At(b, n - 1).c > recent_high THEN "bull"
        ELSE IF At(b, n - 1).c < recent_low THEN "bear"
        ELSE "-"

\* the eight pattern factors, each with its signed delta (0 = not present)
IctTags ==
    {"FVG-Bull", "FVG-Bear", "OB-Bull", "OB-Bear",
     "Sweep-Bull", "Sweep-Bear", "BOS-Bull", "BOS-Bear"}

\* the zones of one polarity that hold the price kurs
\* (g["typ"] == typ and g["unten"] <= kurs <= g["oben"])
Aktive(typ, zonen, kurs) ==
    {g \in zonen : g.typ = typ /\ g.unten <= kurs /\ kurs <= g.oben}

\* mutant of Beitrag: every active event adds its points
Beitrag_Gestapelt(aktive, punkte) == Cardinality(aktive) * punkte

\* if any(...): score += punkte (lines 641-657)
Beitrag(aktive, punkte) == IF aktive # {} THEN punkte ELSE 0

IctDeltas(b, lookback) ==
    LET kurs == At(b, Len(b) - 1).c
        fvgs == detect_fvg(b, lookback)
        obs == detect_order_blocks(b)
        \* [s for s in detect_liquidity_sweep(df, lookback) if s["idx"] >= len(df) - 3]
        recent_sweeps == SweepsAb(b, lookback, Len(b) - 3)
        bos == detect_bos(b, lookback)
    IN  [t \in IctTags |->
            CASE t = "FVG-Bull" -> Beitrag(Aktive("bull", fvgs, kurs), 2)
              [] t = "FVG-Bear" -> Beitrag(Aktive("bear", fvgs, kurs), -2)
              [] t = "OB-Bull" -> Beitrag(Aktive("bull", obs, kurs), 2)
              [] t = "OB-Bear" -> Beitrag(Aktive("bear", obs, kurs), -2)
              [] t = "Sweep-Bull" ->
                    Beitrag({sw \in recent_sweeps : sw.typ = "bull"}, 1)
              [] t = "Sweep-Bear" ->
                    Beitrag({sw \in recent_sweeps : sw.typ = "bear"}, -1)
              [] t = "BOS-Bull" -> IF bos = "bull" THEN 1 ELSE 0
              [] t = "BOS-Bear" -> IF bos = "bear" THEN -1 ELSE 0]

\* sum of a map of deltas
RECURSIVE SumDeltas(_, _)
SumDeltas(d, tags) ==
    IF tags = {} THEN 0
    ELSE LET t == CHOOSE x \in tags : TRUE
         IN  d[t] + SumDeltas(d, tags \ {t})

\* a details dict: the entries of d that were written (the nonzero ones)
Eintraege(d) == [t \in {x \in DOMAIN d : d[x] # 0} |-> d[t]]

LeereDeltas == [t \in {} |-> 0]

\* score_ict(df) with the default lookback: (score, details)
score_ict(b) ==
    IF Len(b) < 50 THEN [score |-> 0, details |-> LeereDeltas]
    ELSE LET d == IctDeltas(b, 20)
         IN  [score |-> SumDeltas(d, IctTags), details |-> Eintraege(d)]

-----------------------------------------------------------------------------
(* precompute_serien, score_bei_index, berechne_score, _verarbeite_ticker  *)
(*                                                                         *)
(* An indicator set is [keys, df, spy]: the keys of the dict, and the      *)
(* price series and benchmark series its entries were computed from; the   *)
(* entry for a key at a bar is read off these with the operators above.    *)
(* A benchmark series is [start, closes]: its first entry is dated         *)
(* trading day start.  Series have at least 14 bars.                       *)

BasisKeys ==
    {"sma200", "sma50", "sma20", "sma10", "rsi", "macd_diff", "bb_lower",
     "vol_ma20", "high_52w", "low_52w", "pct20", "atr", "weekly"}

\* the keys the body of the try block assigns when nothing raises
SerienKeys(b, spy_returns) ==
    BasisKeys
    \cup (IF Len(Weekly(Closes(b))) >= 15 THEN {"weekly_rsi"} ELSE {})
    \cup (IF spy_returns # None /\ Len(spy_returns[1].closes) > 20
          THEN {"spy_pct20"} ELSE {})

\* the order in which the try block assigns them (lines 674-692)
SerienFolge ==
    <<"sma200", "sma50", "sma20", "sma10", "rsi", "macd_diff", "bb_lower",
      "vol_ma20", "high_52w", "low_52w", "pct20", "atr", "weekly", "weekly_rsi",
      "spy_pct20">>

Stelle(key) == CHOOSE k \in 1..Len(SerienFolge) : SerienFolge[k] = key

\* precompute_serien when the computation of the indicator fehler raises
\* (fehler = None: nothing raises): the except clause of line 693 logs the
\* exception and the dict built so far is returned
precompute_serien_bei(b, spy_returns, fehler) ==
    LET alle == SerienKeys(b, spy_returns)
    IN  [keys |-> IF fehler = None \/ fehler[1] \notin alle THEN alle
                  ELSE {key \in alle : Stelle(key) < Stelle(fehler[1])},
         df |-> b,
         spy |-> spy_returns]

precompute_serien(b, spy_returns) == precompute_serien_bei(b, spy_returns, None)

\* spy_pct20.asof(date of bar i): the last value that is not NaN and is
\* dated at or before that day
SpyAsof(spy, i) ==
    LET j == Min(i - spy.start, Len(spy.closes) - 1)
    IN  IF j < 20 THEN None
        ELSE Some([jetzt |-> At(spy.closes, j), vorher |-> At(spy.closes, j - 20)])

\* the pattern bonus is added at the last index only
IctGilt_Immer(i, n) == TRUE

IctGilt(i, n) == i = n - 1

score_bei_index(i, b, s) ==
    IF s.keys = {} \/ Len(b) = 0 \/ i < 0 \/ i >= Len(b) THEN 0
    ELSE
    LET kurs == At(b, i).c
        x == Closes(s.df)
        Wert(key, v) == IF key \in s.keys THEN v ELSE None
        sma200_v == Wert("sma200", SmaAt(x, i, 200))
        sma50_v == Wert("sma50", SmaAt(x, i, 50))
        w == Weekly(x)
    IN  IF kurs <= 0 THEN 0
        ELSE Regel_SMA200(kurs, sma200_v)
             + Regel_Cross(sma50_v, sma200_v)
             + Regel_RSI(Wert("rsi", RsiAt(x, i)))
             + Regel_MACD(Wert("macd_diff", MacdDiffAt(x, i)))
             + Regel_SMA20(kurs, Wert("sma20", SmaAt(x, i, 20)))
             + Regel_SMA10(kurs, Wert("sma10", SmaAt(x, i, 10)))
             + Regel_BB(kurs, Wert("bb_lower", BbLowerAt(x, i)))
             + Regel_Vol(At(b, i).v, Wert("vol_ma20", SmaAt(Volumes(s.df), i, 20)))
             + (IF "weekly" \in s.keys
                THEN Regel_Weekly(SubSeq(w, 1, WochenBis(i)))
                     + (IF "weekly_rsi" \in s.keys /\ WochenBis(i) > 0
                        THEN Regel_WRsi(RsiAt(w, WochenBis(i) - 1))
                        ELSE 0)
                ELSE 0)
             + (IF "spy_pct20" \in s.keys /\ "pct20" \in s.keys
                THEN Regel_RS(Pct20At(x, i), SpyAsof(s.spy[1], i))
                ELSE 0)
             + Regel_52W(kurs, Wert("high_52w", High52At(x, i)),
                         Wert("low_52w", Low52At(x, i)))
             + Regel_Gap(kurs, IF i >= 1 THEN Some(At(b, i - 1).c) ELSE None)
             + (IF IctGilt(i, Len(b)) THEN score_ict(b).score ELSE 0)

\* the factor tags berechne_score writes for its base rules
BasisTags ==
    {"SMA200", "Cross", "RSI", "MACD", "SMA20", "SMA10", "BB", "Vol", "Weekly",
     "W-RSI>80", "RS", "52W-H", "52W-L", "Gap+", "Gap-"}

\* spy.pct_change(20).iloc[-1]
SpyLetzter(spy) ==
    LET n == Len(spy.closes)
    IN  IF n <= 20 THEN None
        ELSE Some([jetzt |-> At(spy.closes, n - 1), vorher |-> At(spy.closes, n - 21)])

\* lines 463-536: the deltas of the base rules at the last bar
BasisDeltas(b, spy) ==
    LET x == Closes(b)
        n == Len(b)
        kurs == At(x, n - 1)
        sma200 == SmaAt(x, n - 1, 200)
        weekly == Weekly(x)
        d52 == Regel_52W(kurs, High52At(x, n - 1), Low52At(x, n - 1))
        gap == Regel_Gap(kurs, IF n >= 2 THEN Some(At(x, n - 2)) ELSE None)
    IN  [t \in BasisTags |->
            CASE t = "SMA200" -> Regel_SMA200(kurs, sma200)
              [] t = "Cross" -> Regel_Cross(SmaAt(x, n - 1, 50), sma200)
              [] t = "RSI" -> Regel_RSI(RsiAt(x, n - 1))
              [] t = "MACD" -> Regel_MACD(MacdDiffAt(x, n - 1))
              [] t = "SMA20" -> Regel_SMA20(kurs, SmaAt(x, n - 1, 20))
              [] t = "SMA10" -> Regel_SMA10(kurs, SmaAt(x, n - 1, 10))
              [] t = "BB" -> Regel_BB(kurs, BbLowerAt(x, n - 1))
              [] t = "Vol" -> Regel_Vol(At(b, n - 1).v, SmaAt(Volumes(b), n - 1, 20))
              [] t = "Weekly" -> Regel_Weekly(weekly)
              [] t = "W-RSI>80" ->
                    IF Len(weekly) >= 15
                    THEN Regel_WRsi(RsiAt(weekly, Len(weekly) - 1)) ELSE 0
              [] t = "RS" ->
                    IF Len(spy.closes) > 1 /\ n > 1
                    THEN Regel_RS(Pct20At(x, n - 1), SpyLetzter(spy)) ELSE 0
              [] t = "52W-H" -> IF d52 = 2 THEN 2 ELSE 0
              [] t = "52W-L" -> IF d52 = 1 THEN 1 ELSE 0
              [] t = "Gap+" -> IF gap = 1 THEN 1 ELSE 0
              [] t = "Gap-" -> IF gap = -1 THEN -1 ELSE 0]

\* a details dict: the factor entries, and the two annotations
KeineDetails == [deltas |-> LeereDeltas, rsi_raw |-> None, trend |-> None]

\* get_spy_returns() (lines 106-120): the new _spy_cache, the returned
\* series, and whether the call wrote _spy_cache; quelle is the series the
\* cache file or the download yields (empty when the download fails)
get_spy_returns(cache, quelle) ==
    IF cache = None
    THEN [cache |-> Some(quelle), wert |-> quelle, schreibt |-> TRUE]
    ELSE [cache |-> cache, wert |-> cache[1], schreibt |-> FALSE]

\* the benchmark berechne_score uses: its argument, else get_spy_returns()
SpyFuer(spy_returns, cache) == IF spy_returns # None THEN spy_returns[1] ELSE cache

\* lines 461-547 of berechne_score: score and details before the trend
berechne_score_ohne_trend(b, spy_returns, cache) ==
    IF Len(b) < 50 THEN [score |-> 0, details |-> KeineDetails]
    ELSE LET d == BasisDeltas(b, SpyFuer(spy_returns, cache))
             ict == score_ict(b)
         IN  [score |-> SumDeltas(d, BasisTags) + ict.score,
              details |-> [deltas |-> Eintraege(d) @@ ict.details,
                           rsi_raw |-> RsiAt(Closes(b), Len(b) - 1),
                           trend |-> None]]

\* mutant of TrendInnen: the inner call computes a trend of its own
TrendInnen_Weiter(compute_trend) == compute_trend

\* the _compute_trend argument of the inner call (line 553)
TrendInnen(compute_trend) == FALSE

\* berechne_score(df, spy_returns, _compute_trend); cache is the series
\* get_spy_returns() returns.
\* Besides (score, details) the result counts the calls of berechne_score
\* the call made, itself included (rufe), and how deep they were nested
\* (tiefe)
RECURSIVE berechne_score(_, _, _, _)
berechne_score(b, spy_returns, compute_trend, cache) ==
    LET r == berechne_score_ohne_trend(b, spy_returns, cache)
    IN  IF Len(b) >= 50 /\ compute_trend /\ Len(b) >= 55
        THEN LET alt == berechne_score(SubSeq(b, 1, Len(b) - 5), spy_returns,
                                       TrendInnen(compute_trend), cache)
             IN  [score |-> r.score,
                  details |-> [r.details EXCEPT !.trend = Some(r.score - alt.score)],
                  rufe |-> 1 + alt.rufe,
                  tiefe |-> 1 + alt.tiefe]
        ELSE [score |-> r.score, details |-> r.details, rufe |-> 1, tiefe |-> 0]

\* _verarbeite_ticker: score, signal and details of the scan result; fehler
\* is the indicator whose computation raises in precompute_serien, or None
verarbeite_ticker(b, spy_returns, cache, fehler) ==
    LET serien_ == precompute_serien_bei(b, spy_returns, fehler)
        i == Len(b) - 1
        score == score_bei_index(i, b, serien_)
    IN  [score |-> score,
         signal |-> "NEUTRAL",
         details |->
            [deltas |-> LeereDeltas,
             rsi_raw |-> IF "rsi" \in serien_.keys THEN RsiAt(Closes(b), i) ELSE None,
             trend |-> IF i >= 55
                       THEN Some(score - berechne_score(
                                    SubSeq(b, 1, Len(b) - 5), spy_returns, FALSE,
                                    cache).score)
                       ELSE None]]

\* lines 2121-2122: the score of every checkpoint of a backtest
ScoresAll(b, spy_returns, check_tage) ==
    LET s == precompute_serien(b, spy_returns)
    IN  [k \in 1..Len(check_tage) |-> score_bei_index(check_tage[k], b, s)]

-----------------------------------------------------------------------------
(* weise_signale                                                           *)

\* the degenerate-distribution guard of the percentile branch
SchwellenGleich_Nie(long_threshold, short_threshold) == FALSE

SchwellenGleich(long_threshold, short_threshold) == long_threshold = short_threshold

\* mutant of ShortDefault: the short threshold defaults to 0
ShortDefault_Null(min_score) == 0

\* min_score - 7 (line 1298)
ShortDefault(min_score) == min_score - 7

Signal(score, long_threshold, short_threshold) ==
    IF score >= long_threshold THEN "GRUEN LONG"
    ELSE IF score <= short_threshold THEN "ROT SHORT"
    ELSE "GELB NEUTRAL"

Anzahl(erg, signal) == Cardinality({k \in 1..Len(erg) : erg[k].signal = signal})

weise_signale(erg, min_score, min_score_short) ==
    LET scores == [k \in 1..Len(erg) |-> erg[k].score]
        ss == Sorted(scores)
        n == Len(erg)
        long_threshold ==
            IF n = 0 THEN 0
            ELSE IF min_score # None THEN min_score[1]
            ELSE At(ss, (n * 8) \div 10)
        short_threshold ==
            IF n = 0 THEN 0
            ELSE IF min_score # None
                 THEN (IF min_score_short # None THEN min_score_short[1]
                       ELSE ShortDefault(min_score[1]))
            ELSE At(ss, (n * 2) \div 10)
        neu == [k \in 1..n |->
                  IF min_score = None /\ SchwellenGleich(long_threshold, short_threshold)
                  THEN [erg[k] EXCEPT !.signal = "GELB NEUTRAL"]
                  ELSE [erg[k] EXCEPT
                          !.signal = Signal(erg[k].score, long_threshold, short_threshold)]]
    IN  [ergebnisse |-> neu,
         long_count |-> Anzahl(neu, "GRUEN LONG"),
         short_count |-> Anzahl(neu, "ROT SHORT"),
         neutral_count |-> Anzahl(neu, "GELB NEUTRAL"),
         long_threshold |-> long_threshold,
         short_threshold |-> short_threshold]

-----------------------------------------------------------------------------
(* cmd_backtest: the per-ticker body as a state machine                    *)

KeinEntscheid == [idx |-> -1, i |-> -1, nxt |-> 0, entscheid |-> "-",
                  long_th |-> None, short_th |-> None]

BtArgs == [haltezeit : HaltezeitVals, use_sl : BOOLEAN, use_trailing : BOOLEAN,
           seit : SeitVals, depot : DepotVals, kosten_eur : {KostenEur}]

\* number of checkpoints of a run that is not skipped, else 0
AnzahlChecks(closes, a) ==
    IF Abgelehnt(closes, a) THEN 0
    ELSE Len(CheckTage(Len(SeitFilter(closes, a.seit)), a.haltezeit))

BasisScores == <<0, 1, 1, 2>>

\* score sequences with a fixed warm-up and extreme scores afterwards, which
\* repeat with period 2
ScoresSchmal(cnt) ==
    {[k \in 1..cnt |-> IF k <= Len(BasisScores) THEN BasisScores[k]
                       ELSE t[((k - Len(BasisScores) - 1) % 2) + 1]] :
        t \in [1..2 -> {0, 2}]}

ScoresBreit(cnt) == [1..cnt -> ScoreVals]

KeinRuf == [op |-> "-", i |-> -1, compute_trend |-> FALSE, score |-> 0,
            details |-> KeineDetails, rufe |-> 0, tiefe |-> 0, ausgang |-> "-"]

\* the scoring functions are not called
ScoreRuht ==
    /\ bars = <<>>
    /\ spy_data = None
    /\ spy_cache = None
    /\ serien = None
    /\ stoerung = None
    /\ ruf = KeinRuf

\* the scan has no worker pool at work
PoolRuht ==
    /\ scan_pc = "sammeln"
    /\ data_map = <<>>
    /\ spy_quelle = [start |-> 0, closes |-> <<>>]
    /\ worker = <<>>
    /\ schreibt = {}

\* weise_signale is not called
ScanRuht ==
    /\ ergebnisse = <<>>
    /\ scan_args = [min_score |-> None, min_score_short |-> None, workers |-> 1]
    /\ klass = None
    /\ PoolRuht

InitRest ==
    /\ cmd = "backtest"
    /\ ScoreRuht
    /\ ScanRuht
    /\ df = <<>>
    /\ bt_pc = "start"
    /\ idx = 0
    /\ next_idx = 0
    /\ trades = <<>>
    /\ equity = 0
    /\ equity_kurve = <<>>
    /\ letzte = KeinEntscheid
    /\ resultate = <<>>
    /\ warnungen = <<>>

\* the run has one ticker, whose simulation raises no unexpected error
EinTicker ==
    /\ tickers = <<[raw |-> raw, atr_modus |-> atr_modus, scores_all |-> scores_all,
                    stoerbar |-> FALSE]>>
    /\ ticker = 1

\* every exit rule and every price pattern, few score sequences
InitMarkt ==
    /\ args \in {a \in BtArgs : /\ a.haltezeit # 45 /\ a.seit = None
                                 /\ a.depot = 10000}
    /\ \E m \in Muster : raw = RawCloses(m, MaxLen)
    /\ atr_modus \in AtrModi
    /\ scores_all \in ScoresSchmal(AnzahlChecks(raw, args))
    /\ EinTicker
    /\ InitRest

\* every score sequence, the price patterns that start at 1000 and stay at
\* one price afterwards, one command line
InitScores ==
    /\ args \in {a \in BtArgs : /\ a.haltezeit = 10 /\ a.seit = None
                                 /\ a.use_sl /\ ~a.use_trailing
                                 /\ a.depot = 10000}
    /\ \E m \in {mm \in Muster : mm[1] = 1000 /\ \A k \in 2..MusterLen : mm[k] = mm[2]} :
            raw = RawCloses(m, MaxLen)
    /\ atr_modus = "nan"
    /\ scores_all \in ScoresBreit(AnzahlChecks(raw, args))
    /\ EinTicker
    /\ InitRest

\* the tickers of a run with several tickers: one market, the score
\* sequences that end low, end high, or are flat (no trade), and whether
\* an unexpected error can occur while the ticker is simulated
TickerVals(a) ==
    LET closes == RawCloses([k \in 1..MusterLen |-> IF k = 1 THEN 1000 ELSE 1200], MaxLen)
        cnt == AnzahlChecks(closes, a)
    IN  {[raw |-> closes, atr_modus |-> "nan", scores_all |-> sc, stoerbar |-> st] :
            sc \in {[k \in 1..cnt |-> IF k <= Len(BasisScores) THEN BasisScores[k] ELSE v] :
                       v \in {0, 2}}
                   \cup {[k \in 1..cnt |-> 1]},
            st \in BOOLEAN}

\* a run over MaxTicker tickers, one command line
InitMehrere ==
    /\ args = [haltezeit |-> 10, use_sl |-> TRUE, use_trailing |-> FALSE,
               seit |-> None, depot |-> 10000, kosten_eur |-> KostenEur]
    /\ tickers \in [1..MaxTicker -> TickerVals(args)]
    /\ ticker = 1
    /\ raw = tickers[1].raw
    /\ atr_modus = tickers[1].atr_modus
    /\ scores_all = tickers[1].scores_all
    /\ InitRest

\* every series length, filter, holding period and account size, one market
InitLaengen ==
    /\ args \in {a \in BtArgs : a.use_sl /\ ~a.use_trailing}
    /\ \E n \in RawLenVals : raw = RawCloses([k \in 1..MusterLen |-> 1000], n)
    /\ atr_modus = "nan"
    /\ scores_all \in ScoresSchmal(AnzahlChecks(raw, args))
    /\ EinTicker
    /\ InitRest

\* the backtest is not run
BtRuht ==
    /\ args = [haltezeit |-> 5, use_sl |-> FALSE, use_trailing |-> FALSE,
               seit |-> None, depot |-> 10000, kosten_eur |-> KostenEur]
    /\ raw = <<>>
    /\ atr_modus = "nan"
    /\ df = <<>>
    /\ scores_all = <<>>
    /\ bt_pc = "aus"
    /\ idx = 0
    /\ next_idx = 0
    /\ trades = <<>>
    /\ equity = 0
    /\ equity_kurve = <<>>
    /\ letzte = KeinEntscheid
    /\ resultate = <<>>
    /\ tickers = <<>>
    /\ ticker = 0
    /\ warnungen = <<>>

\* the warm-up bars: closes swing between 99 and 102 with period 6, every
\* bar opens at the previous close and reaches one point beyond open and close
Osc == <<0, 1, 2, 1, 0, -1>>

WarmBar(k) ==
    LET c == 100 + Osc[(k % 6) + 1]
        o == IF k = 0 THEN c ELSE 100 + Osc[((k - 1) % 6) + 1]
    IN  [o |-> o, h |-> Max(o, c) + 1, l |-> Min(o, c) - 1, c |-> c, v |-> 100]

Warm(n) == [k \in 1..n |-> WarmBar(k - 1)]

\* a strictly rising series: every bar closes one point above the bar before
SteigBar(k) ==
    [o |-> 99 + k, h |-> 101 + k, l |-> 98 + k, c |-> 100 + k, v |-> 100]

Steigend(n) == [k \in 1..n |-> SteigBar(k - 1)]

\* a backtest of a strictly rising series of MaxLen bars, scored by
\* score_bei_index, the benchmark series unavailable
InitSteigend ==
    /\ args \in {a \in BtArgs : /\ a.haltezeit # 45 /\ a.seit = None
                                 /\ a.use_sl /\ ~a.use_trailing
                                 /\ a.depot = 10000}
    /\ raw = Closes(Steigend(MaxLen))
    /\ atr_modus = "eng"
    /\ scores_all = ScoresAll(Steigend(MaxLen), None, CheckTage(MaxLen, args.haltezeit))
    /\ EinTicker
    /\ InitRest

\* the bars that follow the warm-up, by kind, p the previous close
BarArten == {"flach", "auf", "ab", "sweep"}

BarNach(p, art) ==
    CASE art = "flach" -> [o |-> p, h |-> p + 1, l |-> p - 1, c |-> p, v |-> 100]
      [] art = "auf" -> [o |-> p, h |-> p + 5, l |-> p, c |-> p + 4, v |-> 200]
      [] art = "ab" -> [o |-> p, h |-> p, l |-> p - 5, c |-> p - 4, v |-> 200]
      [] art = "sweep" -> [o |-> p, h |-> p + 1, l |-> p - 9, c |-> p + 1, v |-> 100]

RECURSIVE Anhaengen(_, _)
Anhaengen(b, arten) ==
    IF arten = <<>> THEN b
    ELSE Anhaengen(Append(b, BarNach(b[Len(b)].c, Head(arten))), Tail(arten))

Enden(maxlen) == UNION {[1..n -> BarArten] : n \in 0..maxlen}

WarmLens == {47, 54}

\* the scored series: the long warm-up with every tail, the short one (too
\* short for the pattern bonus) alone and with one bar, and a series long
\* enough for two trend computations in a row
BarsVals ==
    {Anhaengen(Warm(54), t) : t \in Enden(MaxTail)}
    \cup {Anhaengen(Warm(47), t) : t \in Enden(1)}
    \cup {Warm(60)}

\* the benchmark: one close per trading day, the last SpyLen days up to the
\* last bar of a series of n bars, rising half a point a day
SpySteigt(n) ==
    [start |-> n - SpyLen,
     closes |-> [j \in 1..SpyLen |-> 400 + (n - SpyLen + j) \div 2]]

\* the benchmark download failed: an empty series
SpyLeer == [start |-> 0, closes |-> <<>>]

\* one call of a scoring function on a downloaded series; score_bei_index
\* is called with the indicator set precompute_serien built before
InitScore ==
    /\ cmd = "score"
    /\ bars \in BarsVals
    /\ \/ spy_cache = Some(SpySteigt(Len(bars))) /\ spy_data = spy_cache
       \/ spy_cache = Some(SpyLeer) /\ spy_data = None
    /\ serien = None
    /\ stoerung = None
    /\ ruf = KeinRuf
    /\ BtRuht
    /\ ScanRuht

\* the indicators whose computation raises in the runs of InitStoerung: the
\* first one, one in the middle, the last of the base indicators, and the
\* last one of all
FehlerVals == {"sma200", "vol_ma20", "atr", "spy_pct20"}

\* a call of precompute_serien in which one indicator's computation raises,
\* on the series that end with the warm-up
InitStoerung ==
    /\ cmd = "score"
    /\ bars \in {Warm(w) : w \in WarmLens}
    /\ \/ spy_cache = Some(SpySteigt(Len(bars))) /\ spy_data = spy_cache
       \/ spy_cache = Some(SpyLeer) /\ spy_data = None
    /\ serien = None
    /\ stoerung \in {Some(f) : f \in FehlerVals}
    /\ ruf = KeinRuf
    /\ BtRuht
    /\ ScanRuht

\* scores of a scan: at the thresholds of MinScoreVals and
\* MinScoreShortVals and at the default short threshold
PopScores == {-4, 0, 3}

MinScoreVals == {None, Some(3)}

MinScoreShortVals == {None, Some(0)}

\* the scan results of n tickers, as _verarbeite_ticker returns them
Population(n) ==
    {[k \in 1..n |-> [ticker |-> k, score |-> f[k], signal |-> "NEUTRAL"]] :
        f \in [1..n -> PopScores]}

\* cmd_scan at the point where every ticker has been scored
InitScan ==
    /\ cmd = "scan"
    /\ \E n \in 0..MaxPop : ergebnisse \in Population(n)
    /\ scan_args \in [min_score : MinScoreVals, min_score_short : MinScoreShortVals,
                       workers : {1}]
    /\ klass = None
    /\ PoolRuht
    /\ BtRuht
    /\ ScoreRuht

\* the series of the tickers of a pooled scan: one long enough for the trend
\* computation, one without data, one too short for it, and so on
PoolDaten(n) ==
    [k \in 1..n |->
        CASE k % 3 = 1 -> Anhaengen(Warm(54), <<"flach", "sweep">>)
          [] k % 3 = 2 -> <<>>
          [] OTHER -> Warm(47)]

KeinFuture == [pc |-> "wartet", ergebnis |-> None, wirft |-> FALSE]

\* cmd_scan from its start: the benchmark is not loaded yet, no ticker
\* scored; the analysis of at most one ticker raises an exception
InitPool ==
    /\ cmd = "scan"
    /\ ergebnisse = <<>>
    /\ scan_args \in [min_score : {None}, min_score_short : {None},
                       workers : 1..MaxWorkers]
    /\ klass = None
    /\ scan_pc = "spy"
    /\ data_map = PoolDaten(PoolTicker)
    /\ spy_quelle \in {SpySteigt(56), SpyLeer}
    /\ \E f \in 0..PoolTicker :
          worker = [k \in 1..PoolTicker |-> [KeinFuture EXCEPT !.wirft = (k = f)]]
    /\ schreibt = {}
    /\ BtRuht
    /\ ScoreRuht

Init ==
    \/ InitMarkt \/ InitScores \/ InitLaengen \/ InitMehrere \/ InitSteigend
    \/ InitScore \/ InitStoerung
    \/ InitScan \/ InitPool

\* lines 2103-2119: the ticker is skipped
BtSkip ==
    /\ cmd = "backtest" /\ bt_pc = "start"
    /\ Abgelehnt(raw, args)
    /\ bt_pc' = "skip"
    /\ UNCHANGED <<cmd, args, raw, atr_modus, df, scores_all, idx, next_idx,
                   trades, equity, equity_kurve, letzte, resultate>>
    /\ UNCHANGED <<laufvars, scorevars, scanvars>>

\* lines 2103-2129: the ticker is accepted and the run set up
BtStart ==
    /\ cmd = "backtest" /\ bt_pc = "start"
    /\ ~Abgelehnt(raw, args)
    /\ df' = SeitFilter(raw, args.seit)
    /\ trades' = <<>>
    /\ equity' = args.depot
    /\ equity_kurve' = StartKurve(args.depot)
    /\ next_idx' = 0
    /\ idx' = 0
    /\ bt_pc' = "loop"
    /\ UNCHANGED <<cmd, args, raw, atr_modus, scores_all, letzte, resultate>>
    /\ UNCHANGED <<laufvars, scorevars, scanvars>>

\* lines 2131-2215: one iteration of the checkpoint loop
BtCheckpoint ==
    /\ cmd = "backtest" /\ bt_pc = "loop"
    /\ idx < Len(CheckTage(Len(df), args.haltezeit))
    /\ LET i == At(CheckTage(Len(df), args.haltezeit), idx)
           e == Entscheid(scores_all, idx, i, next_idx)
           th == Schwellen(scores_all, idx, i, next_idx)
       IN  /\ letzte' = [idx |-> idx, i |-> i, nxt |-> next_idx, entscheid |-> e,
                         long_th |-> th.long_th, short_th |-> th.short_th]
           /\ IF e \in {"LONG", "SHORT"}
              THEN LET t == Trade(df, args, atr_modus, e, i)
                   IN  /\ equity' = equity + t.gewinn
                       /\ equity_kurve' = Append(equity_kurve, equity + t.gewinn)
                       /\ trades' = Append(trades, t)
                       /\ next_idx' = NextIdxNach(i, t.exit_idx)
              ELSE UNCHANGED <<equity, equity_kurve, trades, next_idx>>
    /\ idx' = idx + 1
    /\ UNCHANGED <<cmd, args, raw, atr_modus, df, scores_all, bt_pc, resultate>>
    /\ UNCHANGED <<laufvars, scorevars, scanvars>>

\* lines 2217-2239: the result entry, only when there are trades
BtFinish ==
    /\ cmd = "backtest" /\ bt_pc = "loop"
    /\ idx = Len(CheckTage(Len(df), args.haltezeit))
    /\ resultate' = IF trades # <<>>
                    THEN Append(resultate,
                                Resultat(ticker, trades, args, equity, equity_kurve))
                    ELSE resultate
    /\ bt_pc' = "fertig"
    /\ UNCHANGED <<cmd, args, raw, atr_modus, df, scores_all, idx, next_idx,
                   trades, equity, equity_kurve, letzte>>
    /\ UNCHANGED <<laufvars, scorevars, scanvars>>

\* lines 2240-2241: an unexpected error while the ticker is simulated, at
\* any statement of the try block
BtFehler ==
    /\ cmd = "backtest" /\ bt_pc \in {"start", "loop"}
    /\ tickers[ticker].stoerbar
    /\ warnungen' = Append(warnungen, ticker)
    /\ resultate' = NachFehler(resultate, ticker, trades, args, equity, equity_kurve)
    /\ bt_pc' = "fehler"
    /\ UNCHANGED <<cmd, args, raw, atr_modus, df, scores_all, idx, next_idx,
                   trades, equity, equity_kurve, letzte, tickers, ticker>>
    /\ UNCHANGED <<scorevars, scanvars>>

\* line 2100: the ticker loop goes on to the next ticker
BtNaechster ==
    /\ cmd = "backtest" /\ bt_pc \in {"skip", "fertig", "fehler"}
    /\ ticker < Len(tickers)
    /\ ticker' = ticker + 1
    /\ raw' = tickers[ticker + 1].raw
    /\ atr_modus' = tickers[ticker + 1].atr_modus
    /\ scores_all' = tickers[ticker + 1].scores_all
    /\ letzte' = KeinEntscheid
    /\ bt_pc' = "start"
    /\ UNCHANGED <<cmd, args, df, idx, next_idx, trades, equity, equity_kurve,
                   resultate, tickers, warnungen>>
    /\ UNCHANGED <<scorevars, scanvars>>

\* the indices score_bei_index is called with: the last three bars, and out
\* of range on both sides
IndexVals(n) == {-1, n - 3, n - 2, n - 1, n}

\* serien = precompute_serien(df, spy_returns)
PrecomputeSerien ==
    /\ cmd = "score" /\ ruf.op = "-"
    /\ serien' = Some(precompute_serien_bei(bars, spy_data, stoerung))
    /\ ruf' = [KeinRuf EXCEPT !.op = "precompute_serien", !.ausgang = "ok"]
    /\ UNCHANGED <<cmd, bars, spy_data, spy_cache, stoerung, btvars, scanvars>>

\* score_bei_index(i, df, serien)
ScoreBeiIndex ==
    /\ cmd = "score" /\ ruf.op = "precompute_serien"
    /\ \E i \in IndexVals(Len(bars)) :
          ruf' = [KeinRuf EXCEPT !.op = "score_bei_index", !.i = i,
                                 !.score = score_bei_index(i, bars, serien[1]),
                                 !.ausgang = "ok"]
    /\ UNCHANGED <<cmd, bars, spy_data, spy_cache, serien, stoerung, btvars, scanvars>>

\* berechne_score(df, spy_returns, _compute_trend)
BerechneScore ==
    /\ cmd = "score" /\ ruf.op = "-"
    /\ \E compute_trend \in BOOLEAN :
          LET r == berechne_score(bars, spy_data, compute_trend,
                                  get_spy_returns(spy_cache, spy_quelle).wert)
          IN  ruf' = [KeinRuf EXCEPT !.op = "berechne_score",
                                     !.compute_trend = compute_trend,
                                     !.score = r.score, !.details = r.details,
                                     !.rufe = r.rufe, !.tiefe = r.tiefe,
                                     !.ausgang = "ok"]
    /\ UNCHANGED <<cmd, bars, spy_data, spy_cache, serien, stoerung, btvars, scanvars>>

\* _verarbeite_ticker(ticker, df, rates, spy_data)
VerarbeiteTicker ==
    /\ cmd = "score" /\ ruf.op = "-"
    /\ LET r == verarbeite_ticker(bars, spy_data,
                                  get_spy_returns(spy_cache, spy_quelle).wert, stoerung)
       IN  ruf' = [KeinRuf EXCEPT !.op = "_verarbeite_ticker", !.score = r.score,
                                  !.details = r.details, !.ausgang = "ok"]
    /\ UNCHANGED <<cmd, bars, spy_data, spy_cache, serien, stoerung, btvars, scanvars>>

\* mutant of SpyVorab: the benchmark is not fetched before the pool starts
SpyVorab_Nicht(cache, quelle) ==
    [cache |-> cache, spy_data |-> None, schreibt |-> FALSE]

\* spy_data = get_spy_returns() (line 1394)
SpyVorab(cache, quelle) ==
    LET g == get_spy_returns(cache, quelle)
    IN  [cache |-> g.cache, spy_data |-> Some(g.wert), schreibt |-> g.schreibt]

\* a write to shared state: wer is the ticker whose worker writes, 0 for the
\* main thread; ziel the ticker whose future is written; pool whether the
\* pool had been started
Schreiben(wer, was, ziel, pool) == [wer |-> wer, was |-> was, ziel |-> ziel, pool |-> pool]

\* lines 1393-1417: the main thread loads the benchmark and submits one
\* future per ticker
ScanSpy ==
    /\ cmd = "scan" /\ scan_pc = "spy"
    /\ LET g == SpyVorab(spy_cache, spy_quelle)
       IN  /\ spy_cache' = g.cache
           /\ spy_data' = g.spy_data
           /\ schreibt' = IF g.schreibt
                          THEN schreibt \cup {Schreiben(0, "_spy_cache", 0, FALSE)}
                          ELSE schreibt
    /\ scan_pc' = "pool"
    /\ UNCHANGED <<cmd, ergebnisse, scan_args, klass, data_map, spy_quelle, worker,
                   bars, serien, stoerung, ruf, btvars>>

\* a thread of the pool takes up the future of ticker k
WorkerStart(k) ==
    /\ cmd = "scan" /\ scan_pc = "pool"
    /\ worker[k].pc = "wartet"
    /\ Cardinality({j \in DOMAIN worker : worker[j].pc = "laeuft"}) < scan_args.workers
    /\ worker' = [worker EXCEPT ![k].pc = "laeuft"]
    /\ UNCHANGED <<cmd, ergebnisse, scan_args, klass, scan_pc, data_map, spy_quelle,
                   schreibt, scorevars, btvars>>

\* whether _verarbeite_ticker reaches the call of get_spy_returns() at line
\* 515: berechne_score is called (i >= 55) without a benchmark series
RuftSpy(b, spy_returns) == Len(b) - 1 >= 55 /\ spy_returns = None

\* the placeholder entry of a ticker without data (lines 1410-1412) or
\* whose future raised (lines 1423-1425)
Platzhalter(t) == [ticker |-> t, score |-> 0, signal |-> "NEUTRAL"]

\* _analyse(ticker) (lines 1408-1414) in the worker of ticker k
WorkerLauf(k) ==
    /\ cmd = "scan" /\ scan_pc = "pool"
    /\ worker[k].pc = "laeuft"
    /\ data_map[k] = <<>> \/ ~worker[k].wirft
    /\ LET b == data_map[k]
           g == get_spy_returns(spy_cache, spy_quelle)
           ruft == b # <<>> /\ RuftSpy(b, spy_data)
           r == IF b = <<>> THEN Platzhalter(k)
                ELSE [ticker |-> k,
                      score |-> verarbeite_ticker(b, spy_data, g.wert, None).score,
                      signal |-> "NEUTRAL"]
       IN  /\ worker' = [worker EXCEPT ![k].pc = "fertig", ![k].ergebnis = Some(r)]
           /\ spy_cache' = IF ruft THEN g.cache ELSE spy_cache
           /\ schreibt' = schreibt
                          \cup {Schreiben(k, "future", k, TRUE)}
                          \cup (IF ruft /\ g.schreibt
                                THEN {Schreiben(k, "_spy_cache", 0, TRUE)} ELSE {})
    /\ UNCHANGED <<cmd, ergebnisse, scan_args, klass, scan_pc, data_map, spy_quelle,
                   bars, spy_data, serien, stoerung, ruf, btvars>>

\* _analyse(ticker) raises in the worker of ticker k: the exception is
\* stored in the future
WorkerFehler(k) ==
    /\ cmd = "scan" /\ scan_pc = "pool"
    /\ worker[k].pc = "laeuft"
    /\ data_map[k] # <<>> /\ worker[k].wirft
    /\ worker' = [worker EXCEPT ![k].pc = "fehler"]
    /\ schreibt' = schreibt \cup {Schreiben(k, "future", k, TRUE)}
    /\ UNCHANGED <<cmd, ergebnisse, scan_args, klass, scan_pc, data_map, spy_quelle,
                   scorevars, btvars>>

\* mutant of NachSammeln: a future that raised leaves no entry
NachSammeln_OhneFehler(erg, f, t) ==
    IF f.pc = "fehler" THEN erg ELSE Append(erg, f.ergebnis[1])

\* ergebnisse after the loop body of lines 1419-1425 for the completed
\* future f of ticker t
NachSammeln(erg, f, t) ==
    IF f.pc = "fehler" THEN Append(erg, Platzhalter(t)) ELSE Append(erg, f.ergebnis[1])

\* lines 1418-1426: the main thread appends the result of a completed future
ScanSammeln(k) ==
    /\ cmd = "scan" /\ scan_pc = "pool"
    /\ worker[k].pc \in {"fertig", "fehler"}
    /\ ergebnisse' = NachSammeln(ergebnisse, worker[k], k)
    /\ worker' = [worker EXCEPT ![k].pc = "gesammelt"]
    /\ schreibt' = schreibt \cup {Schreiben(0, "ergebnisse", 0, TRUE)}
    /\ scan_pc' = IF \A j \in DOMAIN worker : j = k \/ worker[j].pc = "gesammelt"
                  THEN "sammeln" ELSE "pool"
    /\ UNCHANGED <<cmd, scan_args, klass, data_map, spy_quelle, scorevars, btvars>>

\* weise_signale(ergebnisse, args.min_score, args.min_score_short)
WeiseSignale ==
    /\ cmd = "scan" /\ klass = None /\ scan_pc = "sammeln"
    /\ LET r == weise_signale(ergebnisse, scan_args.min_score, scan_args.min_score_short)
       IN  /\ ergebnisse' = r.ergebnisse
           /\ klass' = Some([long_count |-> r.long_count,
                             short_count |-> r.short_count,
                             neutral_count |-> r.neutral_count,
                             long_threshold |-> r.long_threshold,
                             short_threshold |-> r.short_threshold])
    /\ UNCHANGED <<cmd, scan_args, poolvars, btvars, scorevars>>

Next ==
    \/ BtSkip \/ BtStart \/ BtCheckpoint \/ BtFinish \/ BtFehler \/ BtNaechster
    \/ PrecomputeSerien \/ ScoreBeiIndex \/ BerechneScore \/ VerarbeiteTicker
    \/ ScanSpy
    \/ \E k \in DOMAIN worker : WorkerStart(k)
    \/ \E k \in DOMAIN worker : WorkerLauf(k)
    \/ \E k \in DOMAIN worker : WorkerFehler(k)
    \/ \E k \in DOMAIN worker : ScanSammeln(k)
    \/ WeiseSignale

Spec == Init /\ [][Next]_vars

-----------------------------------------------------------------------------
(* Claims about the backtest                                               *)

\* C1 as stated: for any two consecutive trades of the trade list the later
\* trade's entry index is strictly greater than the earlier trade's exit
\* index (the closed ranges [entry, exit] are disjoint).
C1_DisjunktStrikt ==
    \A k \in 1..(Len(trades) - 1) : trades[k + 1].datum > trades[k].exit_idx

\* C1 amended: every trade exits after it was entered, and a later trade is
\* entered at or after the exit index of the trade before it; two ranges
\* share at most the one bar at which one trade exits and the next enters.
C1_DisjunktBisAufExitBar ==
    /\ \A k \in 1..Len(trades) : trades[k].datum < trades[k].exit_idx
    /\ \A k \in 1..(Len(trades) - 1) : trades[k + 1].datum >= trades[k].exit_idx

\* C1 witness: a second trade entered on the very bar the first one exited
C1_Witness ==
    /\ Len(trades) >= 2
    /\ trades[2].datum = trades[1].exit_idx

\* C2: at most one trade is open at a time: no trade is entered at a
\* checkpoint strictly between the entry and the exit index of another
\* trade, and the loop skips every such checkpoint.
C2_EinTradeOffen ==
    /\ \A k \in 1..Len(trades) : \A l \in 1..Len(trades) :
          ~(trades[k].datum < trades[l].datum /\ trades[l].datum < trades[k].exit_idx)
    /\ \A k \in 1..Len(trades) :
          (trades[k].datum < letzte.i /\ letzte.i < trades[k].exit_idx)
              => letzte.entscheid = "skip"

\* C2 witness: a checkpoint strictly inside the last trade's range was skipped
C2_Witness ==
    /\ Len(trades) >= 1
    /\ letzte.entscheid = "skip"
    /\ trades[Len(trades)].datum < letzte.i
    /\ letzte.i < trades[Len(trades)].exit_idx

\* scores a later checkpoint might have had instead
AndereScores == ScoreVals \cup {-9, 9}

\* C5: the thresholds applied at checkpoint k, and whether a trade is opened
\* at k, do not depend on the score of any checkpoint after k: replacing any
\* later score by any other value leaves both unchanged.
C5_SchwellenOhneZukunft ==
    letzte.idx >= 0 =>
        \A m \in (letzte.idx + 2)..Len(scores_all) : \A v \in AndereScores :
            LET sc2 == [scores_all EXCEPT ![m] = v]
                th2 == Schwellen(sc2, letzte.idx, letzte.i, letzte.nxt)
            IN  /\ th2.long_th = letzte.long_th
                /\ th2.short_th = letzte.short_th
                /\ Entscheid(sc2, letzte.idx, letzte.i, letzte.nxt) = letzte.entscheid

\* C5 witness: a trade was opened at a checkpoint that has later checkpoints
C5_Witness ==
    /\ letzte.entscheid \in {"LONG", "SHORT"}
    /\ letzte.long_th # None
    /\ letzte.idx + 2 <= Len(scores_all)

\* C8 as stated, for the equity curves the backtest reports: the maximum
\* drawdown 100 * num / den lies in [0, 100].
C8_DrawdownIn0Bis100 ==
    \A k \in 1..Len(resultate) :
        /\ resultate[k].max_drawdown.num >= 0
        /\ resultate[k].max_drawdown.num <= resultate[k].max_drawdown.den

\* C10 as stated: when the series the simulation runs on has fewer than 100
\* bars or no checkpoint, no trade is opened and no result is recorded.
C10_KurzeSerieAbgelehnt ==
    (\/ Len(SeitFilter(raw, args.seit)) < MinBarsBacktest
     \/ Len(CheckTage(Len(SeitFilter(raw, args.seit)), args.haltezeit)) = 0)
        => (trades = <<>> /\ resultate = <<>>)

-----------------------------------------------------------------------------
(* Claims about the scoring functions and the classification               *)

\* the series cut after bar i
Trunc(b, i) == SubSeq(b, 1, i + 1)

\* C3 as stated: for every valid index i the score at i on the full series,
\* with the indicator set built from the full series, equals the score at i
\* on the series truncated to the bars 0..i, with the indicator set built
\* from the truncated series.
C3_ScoreWieAbgeschnitten ==
    (ruf.op = "score_bei_index" /\ ruf.i >= 0 /\ ruf.i < Len(bars)) =>
        ruf.score = score_bei_index(ruf.i, Trunc(bars, ruf.i),
                                    precompute_serien_bei(Trunc(bars, ruf.i), spy_data,
                                                          stoerung))

\* the series of the same length that agree with b on the bars 0..i and
\* continue with bars of any kind
Alternativen(b, i) ==
    {Anhaengen(Trunc(b, i), t) : t \in [1..(Len(b) - 1 - i) -> BarArten]}

\* C4: the score at a valid index i does not depend on the bars after i: on
\* every series of the same length that agrees on the bars 0..i,
\* score_bei_index at i with that series' own indicator set returns the
\* same score.
C4_KeinBlickNachVorn ==
    (ruf.op = "score_bei_index" /\ ruf.i >= 0 /\ ruf.i < Len(bars)) =>
        \A alt \in Alternativen(bars, ruf.i) :
            score_bei_index(ruf.i, alt, precompute_serien_bei(alt, spy_data, stoerung))
                = ruf.score

\* C4 witness: a score at a bar before the last one, although the bars
\* after it form a pattern that moves the score of the last bar
C4_Witness ==
    /\ ruf.op = "score_bei_index"
    /\ ruf.i >= 49
    /\ ruf.i < Len(bars) - 1
    /\ score_ict(bars).score # 0

\* C6 as stated: the score of every (score, details) pair handed out by
\* berechne_score or _verarbeite_ticker is the sum of the signed deltas
\* listed in the details, the annotations rsi_raw and trend not counted.
C6_ScoreIstSummeDerDeltas ==
    ruf.op \in {"berechne_score", "_verarbeite_ticker"} =>
        ruf.score = SumDeltas(ruf.details.deltas, DOMAIN ruf.details.deltas)

\* the scores of a population are all equal
AlleGleich(erg) == \A k \in 1..Len(erg) : erg[k].score = erg[1].score

\* C7: under the percentile policy (no min_score), when the two thresholds
\* weise_signale returns coincide - in particular when all scores are
\* equal - every member is classified Neutral; and in the backtest no
\* trade is opened at a checkpoint whose two thresholds coincide.
C7_EntartetNeutral ==
    /\ (klass # None /\ scan_args.min_score = None /\ Len(ergebnisse) > 0) =>
          /\ AlleGleich(ergebnisse) =>
                klass[1].long_threshold = klass[1].short_threshold
          /\ klass[1].long_threshold = klass[1].short_threshold =>
                /\ \A k \in 1..Len(ergebnisse) : ergebnisse[k].signal = "GELB NEUTRAL"
                /\ klass[1].long_count = 0
                /\ klass[1].short_count = 0
    /\ (letzte.long_th # None /\ letzte.long_th = letzte.short_th) =>
          /\ letzte.entscheid \notin {"LONG", "SHORT"}
          /\ \A k \in 1..Len(trades) : trades[k].datum # letzte.i

\* C7 witness: a classified population whose thresholds coincide although
\* its scores are not all equal
C7_Witness ==
    /\ klass # None
    /\ scan_args.min_score = None
    /\ klass[1].long_threshold = klass[1].short_threshold
    /\ ~AlleGleich(ergebnisse)
    /\ \A k \in 1..Len(ergebnisse) : ergebnisse[k].signal = "GELB NEUTRAL"

\* C9 as stated: building the indicator set for a series of fewer than 50
\* bars ends with the outcome InsufficientData and returns no indicator set.
C9_ZuKurzScheitert ==
    (ruf.op = "precompute_serien" /\ Len(bars) < 50) =>
        (ruf.ausgang = "InsufficientData" /\ serien = None)

\* C11 as stated: when the computation of one indicator raises in
\* precompute_serien, the returned indicator set holds every other indicator
\* the call computes without the failure, and misses only the failed one.
C11_NurDerFehlerhafteFehlt ==
    (ruf.op = "precompute_serien" /\ stoerung # None) =>
        serien[1].keys = SerienKeys(bars, spy_data) \ {stoerung[1]}

-----------------------------------------------------------------------------
(* Claims about the isolation of errors in the backtest                    *)

\* the checkpoint loop run on one ticker alone, from position ix on
RECURSIVE LaufAb(_, _, _, _, _, _, _, _)
LaufAb(closes, a, modus, sc, ix, nxt, tr, kurve) ==
    LET tage == CheckTage(Len(closes), a.haltezeit)
    IN  IF ix >= Len(tage) THEN [trades |-> tr, equity_kurve |-> kurve]
        ELSE LET i == At(tage, ix)
                 e == Entscheid(sc, ix, i, nxt)
             IN  IF e \in {"LONG", "SHORT"}
                 THEN LET t == Trade(closes, a, modus, e, i)
                      IN  LaufAb(closes, a, modus, sc, ix + 1, NextIdxNach(i, t.exit_idx),
                                 Append(tr, t),
                                 Append(kurve, kurve[Len(kurve)] + t.gewinn))
                 ELSE LaufAb(closes, a, modus, sc, ix + 1, nxt, tr, kurve)

\* what a run over the ticker tk alone records
Allein(tk, a) ==
    IF Abgelehnt(tk.raw, a) THEN [trades |-> <<>>, equity_kurve |-> <<>>]
    ELSE LaufAb(SeitFilter(tk.raw, a.seit), a, tk.atr_modus, tk.scores_all, 0, 0,
                <<>>, <<a.depot>>)

Gewarnt == {warnungen[k] : k \in 1..Len(warnungen)}

Gemeldet == {resultate[k].ticker : k \in 1..Len(resultate)}

\* C12: an unexpected error while one ticker is simulated stays with that
\* ticker: no result is recorded for it, every recorded result holds exactly
\* the trades and the equity curve of its own ticker simulated alone, the
\* loop goes on to the next ticker after the error, and at the end of the
\* run every ticker without an error that has trades is reported.
C12_FehlerBleibtImTicker ==
    /\ Gemeldet \cap Gewarnt = {}
    /\ \A k \in 1..Len(resultate) :
          /\ resultate[k].alle_trades = Allein(tickers[resultate[k].ticker], args).trades
          /\ resultate[k].equity_kurve =
                Allein(tickers[resultate[k].ticker], args).equity_kurve
          /\ \A l \in 1..(k - 1) : resultate[l].ticker < resultate[k].ticker
    /\ (bt_pc = "fehler" /\ ticker < Len(tickers)) => ENABLED BtNaechster
    /\ (bt_pc \in {"skip", "fertig", "fehler"} /\ ticker = Len(tickers)) =>
          \A t \in 1..Len(tickers) :
              (t \notin Gewarnt /\ Allein(tickers[t], args).trades # <<>>)
                  => t \in Gemeldet

\* C12 witness: the run is over, the first ticker, which has trades when
\* simulated alone, ended with an error, and the ticker after it is reported
C12_Witness ==
    /\ bt_pc = "fertig"
    /\ Len(tickers) >= 2
    /\ ticker = Len(tickers)
    /\ 1 \in Gewarnt
    /\ Allein(tickers[1], args).trades # <<>>
    /\ 2 \in Gemeldet

-----------------------------------------------------------------------------
(* Claims about the exit rules and the bookkeeping of the backtest         *)

\* the days after the entry at bar i and before the horizon i + haltezeit
\* whose close is at or below the highest close since the entry less 2 ATR
TrailingTage(closes, i, haltezeit, atr_eur) ==
    {j \in (i + 1)..(i + haltezeit - 1) :
        At(closes, j) <= MaxVonBis(closes, i, j) - 2 * atr_eur}

\* C13: with trailing and stop-loss enabled, a LONG trade whose close
\* falls, on a day before the horizon, to or below the highest close since
\* the entry less 2 ATR is closed on the first such day, with exit reason
\* SL and an exit index strictly before entry + haltezeit; this includes
\* the trades whose initial stop (entry - 2 ATR) is never reached.
C13_TrailingStop ==
    (bt_pc \in {"loop", "fertig"} /\ args.use_trailing /\ args.use_sl) =>
        \A k \in 1..Len(trades) :
            LET t == trades[k]
                atr_eur == AtrEur(AtrRaw(atr_modus), t.kauf)
                tage == TrailingTage(df, t.datum, args.haltezeit, atr_eur)
            IN  (t.signal = "LONG" /\ tage # {}) =>
                    /\ t.exit = "SL"
                    /\ t.exit_idx = CHOOSE j \in tage : \A j2 \in tage : j <= j2
                    /\ t.exit_idx < t.datum + args.haltezeit

\* C13 witness: a LONG trade that rose above its entry price and was then
\* closed by the stop at a close above the initial stop
C13_Witness ==
    /\ bt_pc \in {"loop", "fertig"} /\ args.use_trailing /\ args.use_sl
    /\ \E k \in 1..Len(trades) :
          LET t == trades[k]
              atr_eur == AtrEur(AtrRaw(atr_modus), t.kauf)
          IN  /\ t.signal = "LONG"
              /\ t.exit = "SL"
              /\ t.exit_idx < t.datum + args.haltezeit
              /\ MaxVonBis(df, t.datum, t.exit_idx) > t.kauf
              /\ t.verkauf > t.kauf - 2 * atr_eur
              /\ t.verkauf <= MaxVonBis(df, t.datum, t.exit_idx) - 2 * atr_eur

Steigt(closes) == \A k \in 2..Len(closes) : closes[k] > closes[k - 1]

NieFallend(sc) == \A k \in 2..Len(sc) : sc[k] >= sc[k - 1]

\* C14 as stated: a backtest on a strictly rising series opens no SHORT
\* trade, and a backtest whose checkpoint scores never decrease opens no
\* SHORT trade.
C14_KeinShort ==
    (bt_pc \in {"loop", "fertig"} /\ (Steigt(df) \/ NieFallend(scores_all))) =>
        \A k \in 1..Len(trades) : trades[k].signal # "SHORT"

\* C15: in every state of a backtest run after its set-up the equity curve
\* has exactly 1 + (number of recorded trades) samples; the first sample is
\* the ticker's starting capital, the k-th following sample is the account
\* value right after the k-th trade closed (the sample before it plus that
\* trade's profit) and the last sample is the running equity; the trades
\* are recorded in strictly increasing order of exit index; every reported
\* result has a curve of 1 + (its number of trades) samples.
C15_KurveJeTrade ==
    /\ bt_pc \in {"loop", "fertig"} =>
          /\ Len(equity_kurve) = 1 + Len(trades)
          /\ equity_kurve[1] = args.depot
          /\ \A k \in 1..Len(trades) :
                equity_kurve[k + 1] = equity_kurve[k] + trades[k].gewinn
          /\ equity = equity_kurve[Len(equity_kurve)]
          /\ \A k \in 1..(Len(trades) - 1) : trades[k].exit_idx < trades[k + 1].exit_idx
    /\ \A k \in 1..Len(resultate) :
          /\ Len(resultate[k].equity_kurve) = 1 + resultate[k].trades
          /\ resultate[k].equity_kurve[1] = resultate[k].equity_start
          /\ resultate[k].equity_end =
                resultate[k].equity_kurve[Len(resultate[k].equity_kurve)]

\* C15 witness: a finished run with at least two trades and its result
C15_Witness ==
    /\ bt_pc = "fertig"
    /\ Len(trades) >= 2
    /\ Len(equity_kurve) = 1 + Len(trades)
    /\ resultate # <<>>
    /\ trades[1].gewinn # 0

-----------------------------------------------------------------------------
(* Claims about the classification policies                                *)

\* the element at index r (0-based) of the scores sc sorted ascending: the
\* value with at most r scores below it and more than r scores at or below
RangWert(sc, r) ==
    CHOOSE v \in {sc[k] : k \in 1..Len(sc)} :
        /\ Cardinality({k \in 1..Len(sc) : sc[k] < v}) <= r
        /\ Cardinality({k \in 1..Len(sc) : sc[k] <= v}) > r

\* the signal of the percentile rule for thresholds that differ
NachRegel(score, long_threshold, short_threshold) ==
    IF score >= long_threshold THEN "LONG"
    ELSE IF score <= short_threshold THEN "SHORT"
    ELSE "NEUTRAL"

Kurz(signal) ==
    CASE signal = "GRUEN LONG" -> "LONG"
      [] signal = "ROT SHORT" -> "SHORT"
      [] signal = "GELB NEUTRAL" -> "NEUTRAL"
      [] signal = "neutral" -> "NEUTRAL"
      [] OTHER -> signal

\* C16: under the percentile policy the long threshold is the element at
\* index floor(0.8 n) and the short threshold the element at index
\* floor(0.2 n) of the n scores sorted ascending, both indices lie in
\* 0..n-1 and long >= short; when the thresholds differ a member is Long
\* iff score >= long, otherwise Short iff score <= short, otherwise
\* Neutral.  This holds of weise_signale without min_score, over the scan
\* population, and of every backtest checkpoint that computes thresholds,
\* over the scores of the checkpoints up to it.
C16_PerzentilRegel ==
    /\ (klass # None /\ scan_args.min_score = None /\ Len(ergebnisse) > 0) =>
          LET n == Len(ergebnisse)
              sc == [k \in 1..n |-> ergebnisse[k].score]
              lt == klass[1].long_threshold
              st == klass[1].short_threshold
          IN  /\ (8 * n) \div 10 \in 0..(n - 1)
              /\ (2 * n) \div 10 \in 0..(n - 1)
              /\ lt = RangWert(sc, (8 * n) \div 10)
              /\ st = RangWert(sc, (2 * n) \div 10)
              /\ lt >= st
              /\ lt # st =>
                    \A k \in 1..n :
                        Kurz(ergebnisse[k].signal) = NachRegel(sc[k], lt, st)
    /\ letzte.long_th # None =>
          LET n == letzte.idx + 1
              sc == SubSeq(scores_all, 1, n)
              lt == letzte.long_th[1]
              st == letzte.short_th[1]
          IN  /\ (8 * n) \div 10 \in 0..(n - 1)
              /\ (2 * n) \div 10 \in 0..(n - 1)
              /\ lt = RangWert(sc, (8 * n) \div 10)
              /\ st = RangWert(sc, (2 * n) \div 10)
              /\ lt >= st
              /\ lt # st => Kurz(letzte.entscheid) = NachRegel(sc[n], lt, st)

\* C16 witness: a scan population with distinct thresholds in which all
\* three signals occur
C16_Witness ==
    /\ klass # None /\ scan_args.min_score = None
    /\ klass[1].long_threshold # klass[1].short_threshold
    /\ klass[1].long_count > 0
    /\ klass[1].short_count > 0
    /\ klass[1].neutral_count > 0

\* C17: under the absolute policy (min_score configured) every member is
\* Long iff score >= min_score, otherwise Short iff score <= the short
\* threshold, otherwise Neutral, the short threshold being min_score_short
\* or, when that is not configured, min_score - 7; every member carries
\* exactly one of the three signals, the three counts are the numbers of
\* members with each signal and sum to the population size.
C17_AbsoluteRegel ==
    (klass # None /\ scan_args.min_score # None) =>
        LET n == Len(ergebnisse)
            lt == scan_args.min_score[1]
            st == IF scan_args.min_score_short # None
                  THEN scan_args.min_score_short[1] ELSE lt - 7
            Mit(sig) == Cardinality({k \in 1..n : Kurz(ergebnisse[k].signal) = sig})
        IN  /\ \A k \in 1..n :
                  Kurz(ergebnisse[k].signal) = NachRegel(ergebnisse[k].score, lt, st)
            /\ klass[1].long_count = Mit("LONG")
            /\ klass[1].short_count = Mit("SHORT")
            /\ klass[1].neutral_count = Mit("NEUTRAL")
            /\ klass[1].long_count + klass[1].short_count + klass[1].neutral_count = n
            /\ n > 0 => (klass[1].long_threshold = lt /\ klass[1].short_threshold = st)

\* C17 witness: min_score without min_score_short, and a population with a
\* member at each threshold and one in between
C17_Witness ==
    /\ klass # None
    /\ scan_args.min_score # None /\ scan_args.min_score_short = None
    /\ \E k \in 1..Len(ergebnisse) :
          ergebnisse[k].score = scan_args.min_score[1]
          /\ ergebnisse[k].signal = "GRUEN LONG"
    /\ \E k \in 1..Len(ergebnisse) :
          ergebnisse[k].score = scan_args.min_score[1] - 7
          /\ ergebnisse[k].signal = "ROT SHORT"
    /\ klass[1].neutral_count > 0

-----------------------------------------------------------------------------
(* Claims about the trend annotation                                       *)

\* C18: a call of berechne_score invokes berechne_score again at most once,
\* on the series without its last 5 bars, and only when it was called with
\* _compute_trend and at least 55 bars; the inner call invokes nothing
\* further, so the calls are nested at most one level deep and every call
\* returns.
C18_TrendEineEbene ==
    ruf.op = "berechne_score" =>
        /\ ruf.ausgang = "ok"
        /\ ruf.tiefe <= 1
        /\ ruf.rufe <= 2
        /\ ruf.rufe = 1 + ruf.tiefe
        /\ ruf.tiefe = 1 <=> (ruf.compute_trend /\ Len(bars) >= 55)

\* C18 witness: a call with trend on a series whose truncation is itself
\* long enough for a trend computation
C18_Witness ==
    /\ ruf.op = "berechne_score"
    /\ ruf.compute_trend
    /\ Len(bars) - 5 >= 55
    /\ ruf.tiefe = 1
    /\ ruf.details.trend # None

\* the series without its last 5 bars
Ohne5(b) == SubSeq(b, 1, Len(b) - 5)

\* the two scoring functions, applied to a whole series
ScoreA(b) == berechne_score(b, spy_data, FALSE, spy_cache[1]).score

ScoreB(b) == score_bei_index(Len(b) - 1, b, precompute_serien_bei(b, spy_data, stoerung))

\* C19 as stated: a trend annotation produced by berechne_score or by
\* _verarbeite_ticker exists only for a series of at least 55 bars and
\* equals score(full series) - score(series without its last 5 bars) for
\* one and the same scoring function, whose score of the full series is the
\* returned total (the annotation is not added to it).
C19_TrendGleicheFunktion ==
    (ruf.op \in {"berechne_score", "_verarbeite_ticker"} /\ ruf.details.trend # None) =>
        /\ Len(bars) >= 55
        /\ \/ /\ ruf.score = ScoreA(bars)
              /\ ruf.details.trend[1] = ScoreA(bars) - ScoreA(Ohne5(bars))
           \/ /\ ruf.score = ScoreB(bars)
              /\ ruf.details.trend[1] = ScoreB(bars) - ScoreB(Ohne5(bars))

-----------------------------------------------------------------------------
(* Claims about the worker pool of the scan                                *)

PoolGestartet == \E k \in DOMAIN worker : worker[k].pc # "wartet"

\* C20: while the worker pool scores the tickers, no worker writes
\* _spy_cache: the only write to it is the main thread's before the pool
\* starts, from then on _spy_cache is set, and every worker writes nothing
\* but the future of its own ticker, in every interleaving of the workers.
C20_KeinGeteilterSchreibzugriff ==
    /\ \A e \in schreibt :
          /\ e.was = "_spy_cache" => (e.wer = 0 /\ ~e.pool)
          /\ e.wer # 0 => (e.was = "future" /\ e.ziel = e.wer)
    /\ PoolGestartet => (spy_cache # None /\ spy_data # None)

\* C20 witness: two workers run at the same time, one of them on a series
\* long enough for the trend computation, and another one has returned
C20_Witness ==
    /\ scan_pc = "pool"
    /\ \E j \in DOMAIN worker : \E k \in DOMAIN worker :
          /\ j # k
          /\ worker[j].pc = "laeuft" /\ worker[k].pc = "laeuft"
          /\ Len(data_map[j]) >= 56
    /\ \E e \in schreibt : e.wer # 0
    /\ \E e \in schreibt : e.was = "_spy_cache"

-----------------------------------------------------------------------------
(* Claims about the exit and entry rules of the backtest                   *)

\* the stop in force on day j of trade t: 2 ATR from the entry price, with
\* trailing 2 ATR from the best close from the entry up to day j
StopAm(t, closes, a, atr_eur, j) ==
    IF t.signal = "LONG"
    THEN (IF a.use_trailing THEN MaxVonBis(closes, t.datum, j) ELSE t.kauf) - 2 * atr_eur
    ELSE (IF a.use_trailing THEN MinVonBis(closes, t.datum, j) ELSE t.kauf) + 2 * atr_eur

\* the days of trade t's holding period whose close breaches the stop
BruchTage(t, closes, a, atr_eur) ==
    {j \in (t.datum + 1)..(t.datum + a.haltezeit) :
        IF t.signal = "LONG"
        THEN At(closes, j) <= StopAm(t, closes, a, atr_eur, j)
        ELSE At(closes, j) >= StopAm(t, closes, a, atr_eur, j)}

\* C21: with stop-loss enabled every trade exits with reason SL on the
\* first day after the entry, up to entry + haltezeit, whose close breaches
\* the stop in force on that day (close <= stop for LONG, close >= stop for
\* SHORT); when no day breaches it exits with reason Zeit at exactly
\* entry + haltezeit; the exit price is the close of the exit day.
C21_ExitRegelMitStop ==
    (bt_pc \in {"loop", "fertig"} /\ args.use_sl) =>
        \A k \in 1..Len(trades) :
            LET t == trades[k]
                atr_eur == AtrEur(AtrRaw(atr_modus), t.kauf)
                tage == BruchTage(t, df, args, atr_eur)
            IN  /\ IF tage = {}
                   THEN t.exit = "Zeit" /\ t.exit_idx = t.datum + args.haltezeit
                   ELSE /\ t.exit = "SL"
                        /\ t.exit_idx = CHOOSE j \in tage : \A j2 \in tage : j <= j2
                /\ t.verkauf = At(df, t.exit_idx)

\* C21 witness: a trade stopped out on a later day than the first one of
\* its holding period, while a later day breaches the stop too
C21_Witness ==
    /\ bt_pc \in {"loop", "fertig"} /\ args.use_sl
    /\ \E k \in 1..Len(trades) :
          LET t == trades[k]
              tage == BruchTage(t, df, args, AtrEur(AtrRaw(atr_modus), t.kauf))
          IN  /\ t.exit = "SL"
              /\ t.exit_idx > t.datum + 1
              /\ Cardinality(tage) >= 2

\* the checkpoints of the run that lie before bar i
CheckpointsVor(i) ==
    {k \in 1..Len(CheckTage(Len(df), args.haltezeit)) :
        CheckTage(Len(df), args.haltezeit)[k] < i}

\* C22: no trade is opened at a checkpoint unless at least 5 checkpoints
\* before that checkpoint have been scored.
C22_FuenfFruehereCheckpoints ==
    bt_pc \in {"loop", "fertig"} =>
        \A k \in 1..Len(trades) :
            Cardinality(CheckpointsVor(trades[k].datum)) >= MinPast

\* bar i is one of 60, 65, 70, ...
IstCheckpoint(i) == i >= ErsterCheck /\ (i - ErsterCheck) % CheckSchritt = 0

\* C23: every trade is entered at a checkpoint, one of the bars 60, 65,
\* 70, ... below len(df) - haltezeit, so that entry + haltezeit is at most
\* the last bar; a trade that exits on a bar that is no checkpoint is
\* followed by a trade entered at a later bar, a checkpoint.
C23_EinstiegNurAnCheckpoints ==
    bt_pc \in {"loop", "fertig"} =>
        /\ \A k \in 1..Len(trades) :
              /\ IstCheckpoint(trades[k].datum)
              /\ trades[k].datum < Len(df) - args.haltezeit
              /\ trades[k].datum + args.haltezeit <= Len(df) - 1
        /\ \A k \in 1..(Len(trades) - 1) :
              ~IstCheckpoint(trades[k].exit_idx) =>
                  trades[k + 1].datum > trades[k].exit_idx

\* C23 witness: a trade stopped out on a bar that is no checkpoint, and the
\* next trade entered at the first checkpoint after that bar
C23_Witness ==
    /\ bt_pc \in {"loop", "fertig"}
    /\ \E k \in 1..(Len(trades) - 1) :
          /\ trades[k].exit = "SL"
          /\ ~IstCheckpoint(trades[k].exit_idx)
          /\ trades[k + 1].datum > trades[k].exit_idx
          /\ trades[k + 1].datum < trades[k].exit_idx + CheckSchritt

-----------------------------------------------------------------------------
(* Claims about position sizing and the accounts of the backtest           *)

\* twice the ATR of a trade entered at price kauf: the ATR is 2.5 % of the
\* entry price when the indicator has no value
ZweiAtr(kauf) ==
    IF AtrRaw(atr_modus) = None THEN (kauf * 5) \div 100 ELSE 2 * AtrRaw(atr_modus)[1]

\* the risk distance: the larger of twice the ATR and 2 % of the entry price
Risiko(kauf) ==
    CHOOSE r \in {ZweiAtr(kauf), (kauf * 2) \div 100} :
        r >= ZweiAtr(kauf) /\ r >= (kauf * 2) \div 100

Vorzeichen(signal) == IF signal = "LONG" THEN 1 ELSE -1

\* the price move of trade t in its favour, times its share count
Brutto(t) == (t.verkauf - t.kauf) * t.stueck * Vorzeichen(t.signal)

\* the gewinn of the first k trades of tr
RECURSIVE SummeGewinn(_, _)
SummeGewinn(tr, k) == IF k = 0 THEN 0 ELSE SummeGewinn(tr, k - 1) + tr[k].gewinn

\* C25: each trade's gewinn is (exit price - entry price) * shares * sign
\* (+1 LONG, -1 SHORT) less a transaction cost that is the same amount for
\* every trade of the run, twice args.kosten; the k-th step of the equity
\* curve is the k-th trade's gewinn, so the equity is the starting capital
\* plus the sum of the gewinn of all trades, during the run and in the
\* reported result.
C25_GewinnUndEquity ==
    /\ bt_pc \in {"loop", "fertig"} =>
          /\ \A k \in 1..Len(trades) :
                /\ Brutto(trades[k]) - trades[k].gewinn = 2 * args.kosten_eur
                /\ equity_kurve[k + 1] - equity_kurve[k] = trades[k].gewinn
          /\ equity_kurve[1] = args.depot
          /\ equity = args.depot + SummeGewinn(trades, Len(trades))
    /\ \A n \in 1..Len(resultate) :
          resultate[n].equity_end =
              resultate[n].equity_start
              + SummeGewinn(resultate[n].alle_trades, resultate[n].trades)

\* C25 witness: a reported run with a LONG and a SHORT trade, differing
\* share counts, and a trade whose exit price differs from its entry price
C25_Witness ==
    /\ bt_pc = "fertig" /\ resultate # <<>>
    /\ \E k \in 1..Len(trades) : \E l \in 1..Len(trades) :
          trades[k].signal = "LONG" /\ trades[l].signal = "SHORT"
    /\ \E k \in 1..Len(trades) : \E l \in 1..Len(trades) :
          trades[k].stueck # trades[l].stueck
    /\ \E k \in 1..Len(trades) : Brutto(trades[k]) # 0

-----------------------------------------------------------------------------
(* Claims about the pattern detectors and the rule table                   *)

\* bar i dips below the lowest low of the lookback bars before it and
\* closes above that low
SweepBullBei(b, lookback, i) ==
    /\ i >= lookback /\ i <= Len(b) - 1
    /\ At(b, i).l < MinVonBis(Lows(b), i - lookback, i - 1)
    /\ At(b, i).c > MinVonBis(Lows(b), i - lookback, i - 1)

\* bar i exceeds the highest high of the lookback bars before it and
\* closes below that high
SweepBearBei(b, lookback, i) ==
    /\ i >= lookback /\ i <= Len(b) - 1
    /\ At(b, i).h > MaxVonBis(Highs(b), i - lookback, i - 1)
    /\ At(b, i).c < MaxVonBis(Highs(b), i - lookback, i - 1)

\* C26: detect_liquidity_sweep records a bullish sweep at exactly the
\* indices i >= lookback, the latest bar included, whose low is below the
\* lowest low of the lookback bars before and whose close is above it, and a
\* bearish sweep likewise with the highest high; so after berechne_score
\* scored a series of 50 or more bars, a sweep on one of its last 3 bars
\* is among the factors of the score.
C26_SweepAnJedemIndex ==
    (ruf.op = "berechne_score" /\ Len(bars) >= 50) =>
        LET sweeps == detect_liquidity_sweep(bars, 20)
            letzte3 == (Len(bars) - 3)..(Len(bars) - 1)
        IN  /\ \A i \in 0..(Len(bars) - 1) :
                  /\ (\E sw \in sweeps : sw.typ = "bull" /\ sw.idx = i)
                        <=> SweepBullBei(bars, 20, i)
                  /\ (\E sw \in sweeps : sw.typ = "bear" /\ sw.idx = i)
                        <=> SweepBearBei(bars, 20, i)
            /\ (\E i \in letzte3 : SweepBullBei(bars, 20, i))
                  => "Sweep-Bull" \in DOMAIN ruf.details.deltas
            /\ (\E i \in letzte3 : SweepBearBei(bars, 20, i))
                  => "Sweep-Bear" \in DOMAIN ruf.details.deltas

\* the delta of factor t in the details of the last call, 0 when absent
Faktor(t) ==
    IF t \in DOMAIN ruf.details.deltas THEN ruf.details.deltas[t] ELSE 0

Betrag(v) == IF v >= 0 THEN v ELSE 0 - v

\* the events of one kind and polarity that are active at the latest close
AktiveFvg(b, typ) ==
    {g \in detect_fvg(b, 20) :
        g.typ = typ /\ g.unten <= b[Len(b)].c /\ b[Len(b)].c <= g.oben}

AktiveOb(b, typ) ==
    {g \in detect_order_blocks(b) :
        g.typ = typ /\ g.unten <= b[Len(b)].c /\ b[Len(b)].c <= g.oben}

AktiveSweeps(b, typ) ==
    {sw \in detect_liquidity_sweep(b, 20) : sw.typ = typ /\ sw.idx >= Len(b) - 3}

\* C27: however many events of one kind are active at the latest close,
\* the score has one contribution per kind and polarity at most, of the
\* kind's point value (FVG 2, order block 2, sweep 1, BOS 1; bullish
\* positive, bearish negative), present exactly when an event is active;
\* the net contribution of a kind is bounded by its point value and the
\* pattern delta, the difference of the score and the base factors, lies
\* in -6 .. 6.
C27_MusterStapelnNicht ==
    (ruf.op = "berechne_score" /\ Len(bars) >= 50) =>
        /\ Faktor("FVG-Bull") = (IF AktiveFvg(bars, "bull") # {} THEN 2 ELSE 0)
        /\ Faktor("FVG-Bear") = (IF AktiveFvg(bars, "bear") # {} THEN -2 ELSE 0)
        /\ Faktor("OB-Bull") = (IF AktiveOb(bars, "bull") # {} THEN 2 ELSE 0)
        /\ Faktor("OB-Bear") = (IF AktiveOb(bars, "bear") # {} THEN -2 ELSE 0)
        /\ Faktor("Sweep-Bull") = (IF AktiveSweeps(bars, "bull") # {} THEN 1 ELSE 0)
        /\ Faktor("Sweep-Bear") = (IF AktiveSweeps(bars, "bear") # {} THEN -1 ELSE 0)
        /\ Faktor("BOS-Bull") \in {0, 1} /\ Faktor("BOS-Bear") \in {0, -1}
        /\ Betrag(Faktor("FVG-Bull") + Faktor("FVG-Bear")) <= 2
        /\ Betrag(Faktor("OB-Bull") + Faktor("OB-Bear")) <= 2
        /\ Betrag(Faktor("Sweep-Bull") + Faktor("Sweep-Bear")) <= 1
        /\ Betrag(Faktor("BOS-Bull") + Faktor("BOS-Bear")) <= 1
        /\ LET muster == ruf.score - SumDeltas([t \in BasisTags |-> Faktor(t)], BasisTags)
           IN  /\ muster = SumDeltas([t \in IctTags |-> Faktor(t)], IctTags)
               /\ muster >= -6 /\ muster <= 6

\* C27 witness: two or more events of one kind and polarity are active at
\* the latest close and the score has that kind's points once
C27_Witness ==
    /\ ruf.op = "berechne_score" /\ Len(bars) >= 50
    /\ \/ Cardinality(AktiveFvg(bars, "bull")) >= 2 /\ Faktor("FVG-Bull") = 2
       \/ Cardinality(AktiveFvg(bars, "bear")) >= 2 /\ Faktor("FVG-Bear") = -2
       \/ Cardinality(AktiveOb(bars, "bull")) >= 2 /\ Faktor("OB-Bull") = 2
       \/ Cardinality(AktiveOb(bars, "bear")) >= 2 /\ Faktor("OB-Bear") = -2

\* the rule table of the base score on the indicator values at bar i of the
\* series b: every rule on its own, a rule whose indicator is not among the
\* available ones (verf) or has no value at bar i adds nothing; the weekly
\* rules see the weeks completed before bar i, the benchmark rule the
\* benchmark's 20-bar change at the day of bar i
RegelTabelle(b, i, spy, verf) ==
    LET x == Closes(b)
        kurs == At(x, i)
        w == SubSeq(Weekly(x), 1, WochenBis(i))
        Wert(key, v) == IF key \in verf THEN v ELSE None
        sma200 == Wert("sma200", SmaAt(x, i, 200))
    IN  Regel_SMA200(kurs, sma200)
        + Regel_Cross(Wert("sma50", SmaAt(x, i, 50)), sma200)
        + Regel_RSI(Wert("rsi", RsiAt(x, i)))
        + Regel_MACD(Wert("macd_diff", MacdDiffAt(x, i)))
        + Regel_SMA20(kurs, Wert("sma20", SmaAt(x, i, 20)))
        + Regel_SMA10(kurs, Wert("sma10", SmaAt(x, i, 10)))
        + Regel_BB(kurs, Wert("bb_lower", BbLowerAt(x, i)))
        + Regel_Vol(At(b, i).v, Wert("vol_ma20", SmaAt(Volumes(b), i, 20)))
        + (IF "weekly" \in verf THEN Regel_Weekly(w) ELSE 0)
        + (IF "weekly" \in verf /\ "weekly_rsi" \in verf /\ Len(w) > 0
           THEN Regel_WRsi(RsiAt(Weekly(x), Len(w) - 1)) ELSE 0)
        + (IF "spy_pct20" \in verf /\ "pct20" \in verf
           THEN Regel_RS(Pct20At(x, i), SpyAsof(spy, i)) ELSE 0)
        + Regel_52W(kurs, Wert("high_52w", High52At(x, i)),
                    Wert("low_52w", Low52At(x, i)))
        + Regel_Gap(kurs, IF i >= 1 THEN Some(At(x, i - 1)) ELSE None)

\* C28: the base score, the score before the pattern delta, is the sum of
\* the deltas of the rule table on the indicator values at the scored index,
\* an unavailable indicator adding nothing, for score_bei_index at every
\* index and every set of available indicators that is not empty, and for
\* berechne_score at the last index with every indicator computed.
C28_RegelTabelle ==
    /\ (ruf.op = "score_bei_index" /\ ruf.i >= 0 /\ ruf.i < Len(bars)
            /\ serien[1].keys # {}) =>
          ruf.score - (IF ruf.i = Len(bars) - 1 THEN score_ict(bars).score ELSE 0)
              = RegelTabelle(bars, ruf.i,
                             IF serien[1].spy = None THEN SpyLeer ELSE serien[1].spy[1],
                             serien[1].keys)
    /\ (ruf.op = "berechne_score" /\ Len(bars) >= 50) =>
          SumDeltas([t \in BasisTags |-> Faktor(t)], BasisTags)
              = RegelTabelle(bars, Len(bars) - 1,
                             IF spy_data = None THEN spy_cache[1] ELSE spy_data[1],
                             SerienKeys(bars, Some(IF spy_data = None THEN spy_cache[1]
                                                   ELSE spy_data[1])))

\* C29: with the stop-loss switched off every trade, LONG or SHORT, exits
\* with reason Zeit at exactly entry + haltezeit, also when trailing is on
\* and a close crosses the trailing stop level.
C29_OhneStopNurZeit ==
    (bt_pc \in {"loop", "fertig"} /\ ~args.use_sl) =>
        \A k \in 1..Len(trades) :
            /\ trades[k].exit = "Zeit"
            /\ trades[k].exit_idx = trades[k].datum + args.haltezeit
            /\ trades[k].verkauf = At(df, trades[k].datum + args.haltezeit)

\* C29 witness: stop-loss off, trailing on, and a LONG and a SHORT trade
\* that ran to the horizon although a close crossed the trailing stop level
C29_Witness ==
    /\ bt_pc \in {"loop", "fertig"} /\ ~args.use_sl /\ args.use_trailing
    /\ \E k \in 1..Len(trades) : \E l \in 1..Len(trades) :
          /\ trades[k].signal = "LONG" /\ trades[l].signal = "SHORT"
          /\ trades[k].exit = "Zeit" /\ trades[l].exit = "Zeit"
          /\ BruchTage(trades[k], df, args, AtrEur(AtrRaw(atr_modus), trades[k].kauf)) # {}
          /\ BruchTage(trades[l], df, args, AtrEur(AtrRaw(atr_modus), trades[l].kauf)) # {}

-----------------------------------------------------------------------------
(* Claims about the result list of the scan                                *)

\* the entries of ticker t in the result list
Eintrag(t) == {n \in 1..Len(ergebnisse) : ergebnisse[n].ticker = t}

\* the tickers entered with a placeholder: no data, or the analysis raised
OhneErgebnis == {t \in DOMAIN worker : data_map[t] = <<>> \/ worker[t].wirft}

\* C30: in a scan every requested ticker gets exactly one result entry, in
\* whatever order the workers complete; a ticker without data or whose
\* analysis raised is entered with score 0; and the percentile thresholds
\* of weise_signale are the elements at floor(0.8 n) and floor(0.2 n) of
\* the sorted scores of all n entries, the placeholders included.
C30_EinEintragJeTicker ==
    (cmd = "scan" /\ worker # <<>>) =>
        /\ \A t \in DOMAIN worker :
              /\ Cardinality(Eintrag(t)) = (IF worker[t].pc = "gesammelt" THEN 1 ELSE 0)
              /\ \A n \in Eintrag(t) : t \in OhneErgebnis => ergebnisse[n].score = 0
        /\ scan_pc = "sammeln" =>
              /\ Len(ergebnisse) = Len(worker)
              /\ \A t \in DOMAIN worker : Cardinality(Eintrag(t)) = 1
        /\ klass # None =>
              LET n == Len(ergebnisse)
                  MitRang(v, r) ==
                      /\ \E k \in 1..n : ergebnisse[k].score = v
                      /\ Cardinality({k \in 1..n : ergebnisse[k].score < v}) <= r
                      /\ Cardinality({k \in 1..n : ergebnisse[k].score <= v}) > r
              IN  /\ MitRang(klass[1].long_threshold, (n * 8) \div 10)
                  /\ MitRang(klass[1].short_threshold, (n * 2) \div 10)
                  /\ klass[1].long_count + klass[1].short_count
                       + klass[1].neutral_count = n

\* C30 witness: the signals are assigned after the results were collected in
\* another order than the tickers were requested; one ticker had no data,
\* the analysis of another raised, and the score 0 of their placeholders is
\* the short threshold, below the scores of the analysed tickers
C30_Witness ==
    /\ cmd = "scan" /\ worker # <<>> /\ klass # None
    /\ \E n \in 1..Len(ergebnisse) : ergebnisse[n].ticker # n
    /\ \E t \in DOMAIN worker : data_map[t] = <<>>
    /\ \E t \in DOMAIN worker : data_map[t] # <<>> /\ worker[t].wirft
    /\ klass[1].short_threshold = 0
    /\ \E n \in 1..Len(ergebnisse) : ergebnisse[n].score > 0

====
